---- MODULE Spec2Model ----
(***************************************************************************)
(* Greek courier tracker: the retry/fallback orchestrator                  *)
(* (couriers/__init__.py) as driven by one tracking request of the         *)
(* coordinator (__init__.py, _track_one).                                  *)
(*                                                                         *)
(* One behaviour is one tracking request.  Every await of the source is a  *)
(* step boundary: the call of courier.track, its completion (a returned    *)
(* TrackingResult or a raised exception), and asyncio.sleep.               *)
(***************************************************************************)
EXTENDS Integers, Sequences, FiniteSets, TLC

(***************************************************************************)
(* Bounds of the model (not program constants).                            *)
(***************************************************************************)
\* longest events list an adapter response carries
MaxEvents == 1

(***************************************************************************)
(* Program constants.                                                      *)
(***************************************************************************)
\* mutant: one attempt too many
MAX_RETRIES_OffByOne == 3 + 1

\* couriers/__init__.py:39
MAX_RETRIES == 3

\* couriers/__init__.py:29-36, in dict insertion (= iteration) order
COURIER_REGISTRY == <<"elta", "acs", "speedex", "box_now", "geniki", "courier_center">>

RegistryCodes == {COURIER_REGISTRY[i] : i \in 1..Len(COURIER_REGISTRY)}

\* The adapter classes that override BaseCourier's abstract classmethod
\* matches_tracking_number (elta.py:41, boxnow.py:40).  acs.py, speedex.py,
\* geniki.py and courier_center.py define none.
DefinesMatches == {"elta", "box_now"}

\* Every adapter class defines the other abstract method, track.
DefinesTrack == RegistryCodes

\* BaseCourier is an ABC with two abstract methods (base.py:36-66): calling
\* a subclass raises TypeError unless the subclass overrides both.
Instantiable(code) == code \in DefinesMatches /\ code \in DefinesTrack

(***************************************************************************)
(* Tracking numbers are sequences of one-character strings.                *)
(***************************************************************************)
Digits == {"0", "1", "2", "3", "4", "5", "6", "7", "8", "9"}

LowerSeq == <<"a", "b", "c", "d", "e", "f", "g", "h", "i", "j", "k", "l", "m",
              "n", "o", "p", "q", "r", "s", "t", "u", "v", "w", "x", "y", "z">>

UpperSeq == <<"A", "B", "C", "D", "E", "F", "G", "H", "I", "J", "K", "L", "M",
              "N", "O", "P", "Q", "R", "S", "T", "U", "V", "W", "X", "Y", "Z">>

UpperLetters == {UpperSeq[i] : i \in 1..26}

Whitespace == {" ", "\t", "\n"}

\* str.upper on one character
UpperChar(ch) ==
    IF \E i \in 1..26 : LowerSeq[i] = ch
    THEN UpperSeq[CHOOSE i \in 1..26 : LowerSeq[i] = ch]
    ELSE ch

\* str.upper
Upper(s) == [i \in 1..Len(s) |-> UpperChar(s[i])]

RECURSIVE LStrip(_)
LStrip(s) == IF s # <<>> /\ Head(s) \in Whitespace THEN LStrip(Tail(s)) ELSE s

RECURSIVE RStrip(_)
RStrip(s) ==
    IF s # <<>> /\ s[Len(s)] \in Whitespace
    THEN RStrip(SubSeq(s, 1, Len(s) - 1))
    ELSE s

\* str.strip
Strip(s) == RStrip(LStrip(s))

AllDigits(s, lo, hi) == \A i \in lo..hi : s[i] \in Digits

\* ELTACourier.PATTERNS, elta.py:25-30
EltaPatternMatch(t) ==
    \/ /\ Len(t) = 13 /\ t[1] = "S" /\ t[2] = "E" /\ AllDigits(t, 3, 11)
       /\ t[12] = "G" /\ t[13] = "R"
    \/ /\ Len(t) = 13 /\ t[1] = "E" /\ t[2] = "L" /\ AllDigits(t, 3, 11)
       /\ t[12] = "G" /\ t[13] = "R"
    \/ /\ Len(t) = 13 /\ t[1] = "G" /\ t[2] = "R" /\ AllDigits(t, 3, 11)
       /\ t[12] \in UpperLetters /\ t[13] \in UpperLetters
    \/ /\ Len(t) = 13 /\ t[1] \in UpperLetters /\ t[2] \in UpperLetters
       /\ AllDigits(t, 3, 11) /\ t[12] = "G" /\ t[13] = "R"

\* ELTACourier.matches_tracking_number, elta.py:41-48
EltaMatches(number) == EltaPatternMatch(Upper(Strip(number)))

\* BoxNowCourier.matches_tracking_number, boxnow.py:40-49: ^BN\d{8,10}$ only
BoxNowMatches(number) ==
    LET t == Upper(Strip(number)) IN
        /\ Len(t) \in 10..12 /\ t[1] = "B" /\ t[2] = "N"
        /\ AllDigits(t, 3, Len(t))

\* the adapters whose matches_tracking_number accepts the number
MatchingCouriers(number) ==
    {c \in DefinesMatches : \/ c = "elta" /\ EltaMatches(number)
                            \/ c = "box_now" /\ BoxNowMatches(number)}

(***************************************************************************)
(* Inputs of one request.                                                  *)
(***************************************************************************)
\* "SE101046219GR", " bn12345678 " (untrimmed, lower case), "1234567890",
\* "INVALID"
Numbers ==
    { <<"S", "E", "1", "0", "1", "0", "4", "6", "2", "1", "9", "G", "R">>,
      <<" ", "b", "n", "1", "2", "3", "4", "5", "6", "7", "8", " ">>,
      <<"1", "2", "3", "4", "5", "6", "7", "8", "9", "0">>,
      <<"I", "N", "V", "A", "L", "I", "D">> }

\* the "courier" value of a tracking config: a registry code, "auto", or a
\* code no adapter is registered for
SelectedCouriers == RegistryCodes \cup {"auto", "dhl"}

(***************************************************************************)
(* What one call of courier.track can produce (BaseCourier.track is        *)
(* abstract): a TrackingResult or a raised exception.                      *)
(***************************************************************************)
Statuses == {"Delivered", "Unknown", "", "Not Found", "Error"}

ExcMessages == {"timeout", "connection reset"}

EventLists == {s \in UNION {[1..n -> {"ev"}] : n \in 0..MaxEvents} : TRUE}

CategoryOf(success, status) ==
    IF ~success \/ status = "Error" THEN "error"
    ELSE IF status = "Delivered" THEN "delivered"
    ELSE "unknown"

\* TrackingResult (base.py:21-33) as an adapter builds it; oid stands for the
\* identity of the Python object: the adapter and the call that created it
AdapterResult(code, t, n, success, status, events) ==
    [kind |-> "result", success |-> success, tracking_number |-> t,
     courier |-> code, status |-> status,
     status_category |-> CategoryOf(success, status), events |-> events,
     latest_event |-> IF events = <<>> THEN "None" ELSE events[1],
     error_message |-> IF success THEN <<>> ELSE <<"adapter error">>,
     oid |-> <<code, n>>]

AdapterResults(code, t, n) ==
    {AdapterResult(code, t, n, su, st, ev) :
        su \in BOOLEAN, st \in Statuses, ev \in EventLists}

Raised(msg) == [kind |-> "exc", msg |-> msg]

NoneValue == [kind |-> "none"]

(***************************************************************************)
(* State.                                                                  *)
(***************************************************************************)
VARIABLES
    number,       \* _track_one: the configured tracking number
    selected,     \* _track_one: tracking_configs[number]["courier"]
    pc,           \* _track_one: "start", "explicit", "auto", "done"
    out,          \* _track_one: the returned value (a result or None)
    spc,          \* track_with_auto_detect: "idle", "loop", "retry",
                  \*   "returned", "raised"
    idx,          \* track_with_auto_detect: position in COURIER_REGISTRY
    last_result,  \* track_with_auto_detect: last_result
    sret,         \* track_with_auto_detect: the returned result
    outcomes,     \* history: the retry outcome of each adapter of the sweep
    rpc,          \* _track_with_retry: "idle", "attempt", "awaiting",
                  \*   "sleeping", "returned"
    courier,      \* _track_with_retry: the adapter (its COURIER_CODE)
    tn,           \* _track_with_retry: tracking_number argument
    attempt,      \* _track_with_retry: loop variable, 0-based
    last_error,   \* _track_with_retry: last_error
    rret,         \* _track_with_retry: the returned result
    hist,         \* history: what each track call of this retry produced
    log,          \* history: constructions, track calls and sleeps, in order
    fn,           \* a pure function under test: its arguments and its value
    reqs,         \* the requests of one refresh that run concurrently
    flow,         \* the options flow: its tracking list and its last answer
    coord         \* the coordinator: configuration, data and the running
                  \*   refresh

vars == <<number, selected, pc, out, spc, idx, last_result, sret, outcomes,
          rpc, courier, tn, attempt, last_error, rret, hist, log, fn, reqs,
          flow, coord>>

trackOneVars == <<number, selected, pc, out>>
sweepVars == <<spc, idx, last_result, sret, outcomes>>
retryVars == <<rpc, courier, tn, attempt, last_error, rret, hist>>
requestVars == <<trackOneVars, sweepVars, retryVars, log>>
hostVars == <<flow, coord>>
otherVars == <<fn, reqs, hostVars>>

Init ==
    /\ number \in Numbers
    /\ selected \in SelectedCouriers
    /\ pc = "start"
    /\ out = NoneValue
    /\ spc = "idle"
    /\ idx = 0
    /\ last_result = NoneValue
    /\ sret = NoneValue
    /\ outcomes = <<>>
    /\ rpc = "idle"
    /\ courier = "none"
    /\ tn = <<>>
    /\ attempt = 0
    /\ last_error = NoneValue
    /\ rret = NoneValue
    /\ hist = <<>>
    /\ log = <<>>
    /\ fn = NoneValue
    /\ reqs = <<>>
    /\ flow = NoneValue
    /\ coord = NoneValue

(***************************************************************************)
(* The acceptance tests of the two policies.                               *)
(***************************************************************************)
\* mutant: "and" for "or" in line 155, a status phrase alone is not enough
FoundNeedsEvents(r) ==
    /\ r.success
    /\ r.status \notin {"Not Found", "Error"}
    /\ r.events # <<>>

\* mutant: line 155 dropped, the placeholder result is accepted
FoundAnySuccess(r) ==
    /\ r.success
    /\ r.status \notin {"Not Found", "Error"}

\* _track_with_retry, couriers/__init__.py:154-155
Found(r) ==
    /\ r.success
    /\ r.status \notin {"Not Found", "Error"}
    /\ (r.events # <<>> \/ r.status \notin {"Unknown", ""})

\* mutant: the status literal misspelt, the branch is never taken
ClearNotFoundMisspelt(r) == r.success /\ r.status = "Not found"

\* _track_with_retry, couriers/__init__.py:165
ClearNotFound(r) == r.success /\ r.status = "Not Found"

\* track_with_auto_detect, couriers/__init__.py:94
Confident(r) == r.success /\ r.status \notin {"Not Found", "Error"}

\* the tracking_number an adapter stamps on its results: every track starts
\* with strip(); elta.py:52 also upper-cases, boxnow.py:53 does not
AdapterTn(code, t) == IF code \in {"acs", "box_now"} THEN Strip(t) ELSE Upper(Strip(t))

\* mutant: the last exception is left out of the message
RetryExhaustedResultNoCause(code, t, err) ==
    [kind |-> "result", success |-> FALSE, tracking_number |-> t,
     courier |-> code, status |-> "Error", status_category |-> "error",
     events |-> <<>>, latest_event |-> "None",
     error_message |-> <<"Failed after MAX_RETRIES attempts">>,
     oid |-> <<"_track_with_retry", 0>>]

\* _track_with_retry, couriers/__init__.py:205-214
RetryExhaustedResult(code, t, err) ==
    [kind |-> "result", success |-> FALSE, tracking_number |-> t,
     courier |-> code, status |-> "Error", status_category |-> "error",
     events |-> <<>>, latest_event |-> "None",
     error_message |-> <<"Failed after MAX_RETRIES attempts: ", err.msg>>,
     oid |-> <<"_track_with_retry", 0>>]

\* track_with_auto_detect, couriers/__init__.py:116-125
AllCouriersFailedResult(t) ==
    [kind |-> "result", success |-> FALSE, tracking_number |-> t,
     courier |-> "unknown", status |-> "Error", status_category |-> "error",
     events |-> <<>>, latest_event |-> "None",
     error_message |-> <<"All couriers failed to track this number">>,
     oid |-> <<"track_with_auto_detect", 0>>]

LogEntry(op, code) == [op |-> op, courier |-> code]

(***************************************************************************)
(* _track_with_retry, couriers/__init__.py:128-214.                        *)
(***************************************************************************)
\* the call: entry into the function with its arguments, line 143
StartRetry(code, t) ==
    /\ rpc' = "attempt"
    /\ courier' = code
    /\ tn' = t
    /\ attempt' = 0
    /\ last_error' = NoneValue
    /\ rret' = NoneValue
    /\ hist' = <<>>

\* line 147: courier.track(tracking_number) is called and awaited
RetryCall ==
    /\ rpc = "attempt"
    /\ attempt < MAX_RETRIES
    /\ rpc' = "awaiting"
    /\ log' = Append(log, LogEntry("track", courier))
    /\ UNCHANGED <<courier, tn, attempt, last_error, rret, hist>>
    /\ UNCHANGED <<trackOneVars, sweepVars>>
    /\ UNCHANGED otherVars

\* lines 147-190: track returns a TrackingResult
TrackReturns ==
    /\ rpc = "awaiting"
    /\ \E r \in AdapterResults(courier, AdapterTn(courier, tn), Len(hist) + 1) :
        /\ hist' = Append(hist, r)
        /\ IF Found(r) \/ ClearNotFound(r)
           THEN /\ rpc' = "returned"
                /\ rret' = r
                /\ log' = log
           ELSE IF attempt < MAX_RETRIES - 1
           THEN /\ rpc' = "sleeping"
                /\ rret' = rret
                /\ log' = Append(log, LogEntry("sleep", courier))
           ELSE /\ rpc' = "returned"
                /\ rret' = r
                /\ log' = log
    /\ UNCHANGED <<courier, tn, attempt, last_error>>
    /\ UNCHANGED <<trackOneVars, sweepVars>>
    /\ UNCHANGED otherVars

\* lines 192-214: track raises; after the last attempt the loop ends and the
\* synthesized error result is returned
TrackRaises ==
    /\ rpc = "awaiting"
    /\ \E msg \in ExcMessages :
        /\ hist' = Append(hist, Raised(msg))
        /\ last_error' = Raised(msg)
        /\ IF attempt < MAX_RETRIES - 1
           THEN /\ rpc' = "sleeping"
                /\ rret' = rret
                /\ log' = Append(log, LogEntry("sleep", courier))
           ELSE /\ rpc' = "returned"
                /\ rret' = RetryExhaustedResult(courier, tn, last_error')
                /\ log' = log
    /\ UNCHANGED <<courier, tn, attempt>>
    /\ UNCHANGED <<trackOneVars, sweepVars>>
    /\ UNCHANGED otherVars

\* lines 182, 202: asyncio.sleep(0.5) completes, the loop goes on
SleepDone ==
    /\ rpc = "sleeping"
    /\ rpc' = "attempt"
    /\ attempt' = attempt + 1
    /\ UNCHANGED <<courier, tn, last_error, rret, hist, log>>
    /\ UNCHANGED <<trackOneVars, sweepVars>>
    /\ UNCHANGED otherVars

(***************************************************************************)
(* track_with_auto_detect, couriers/__init__.py:57-125.                    *)
(***************************************************************************)
\* the call: lines 71-79
StartSweep ==
    /\ spc' = "loop"
    /\ idx' = 1
    /\ last_result' = NoneValue
    /\ sret' = NoneValue
    /\ outcomes' = <<>>

\* lines 81-90 and 111-125: the loop head.  The next adapter class is
\* instantiated outside any try block and handed to _track_with_retry; when
\* the registry is exhausted the last result is returned.
SweepLoop ==
    /\ spc = "loop"
    /\ IF idx > Len(COURIER_REGISTRY)
       THEN /\ spc' = "returned"
            /\ sret' = IF last_result # NoneValue THEN last_result
                       ELSE AllCouriersFailedResult(number)
            /\ log' = log
            /\ UNCHANGED retryVars
       ELSE /\ log' = Append(log, LogEntry("construct", COURIER_REGISTRY[idx]))
            /\ sret' = sret
            /\ IF Instantiable(COURIER_REGISTRY[idx])
               THEN /\ spc' = "retry"
                    /\ StartRetry(COURIER_REGISTRY[idx], Upper(Strip(number)))
               ELSE /\ spc' = "raised"
                    /\ UNCHANGED retryVars
    /\ UNCHANGED <<idx, last_result, outcomes>>
    /\ UNCHANGED trackOneVars
    /\ UNCHANGED otherVars

\* lines 90-109: _track_with_retry has returned
SweepRetryReturns ==
    /\ spc = "retry"
    /\ rpc = "returned"
    /\ last_result' = rret
    /\ outcomes' = Append(outcomes, rret)
    /\ IF Confident(rret)
       THEN /\ spc' = "returned"
            /\ sret' = rret
            /\ idx' = idx
       ELSE /\ spc' = "loop"
            /\ sret' = sret
            /\ idx' = idx + 1
    /\ UNCHANGED <<retryVars, log>>
    /\ UNCHANGED trackOneVars
    /\ UNCHANGED otherVars

(***************************************************************************)
(* GreekCourierDataUpdateCoordinator._async_update_data._track_one,        *)
(* __init__.py:196-223, and get_courier, couriers/__init__.py:42-54.       *)
(***************************************************************************)
\* lines 203-209: a registered courier is selected; get_courier instantiates
\* its class, and a TypeError raised there is caught at line 220
TrackOneSelected ==
    /\ pc = "start"
    /\ selected \notin {"", "auto"}
    /\ selected \in RegistryCodes
    /\ log' = Append(log, LogEntry("construct", selected))
    /\ IF Instantiable(selected)
       THEN /\ pc' = "explicit"
            /\ out' = out
            /\ StartRetry(selected, number)
       ELSE /\ pc' = "done"
            /\ out' = NoneValue
            /\ UNCHANGED retryVars
    /\ UNCHANGED <<number, selected>>
    /\ UNCHANGED sweepVars
    /\ UNCHANGED otherVars

\* lines 210-212: get_courier returned None
TrackOneFallback ==
    /\ pc = "start"
    /\ selected \notin {"", "auto"}
    /\ selected \notin RegistryCodes
    /\ pc' = "auto"
    /\ StartSweep
    /\ UNCHANGED <<number, selected, out, log>>
    /\ UNCHANGED retryVars
    /\ UNCHANGED otherVars

\* mutant: a detection step in front of the sweep; a number that matches an
\* adapter's pattern is tracked with that adapter alone
TrackOneAutoDetectFirst ==
    /\ pc = "start"
    /\ selected \in {"", "auto"}
    /\ IF MatchingCouriers(number) # {}
       THEN LET c == CHOOSE m \in MatchingCouriers(number) : TRUE IN
            /\ pc' = "explicit"
            /\ log' = Append(log, LogEntry("construct", c))
            /\ StartRetry(c, number)
            /\ UNCHANGED sweepVars
       ELSE /\ pc' = "auto"
            /\ StartSweep
            /\ UNCHANGED <<log, retryVars>>
    /\ UNCHANGED <<number, selected, out>>
    /\ UNCHANGED otherVars

\* lines 213-215: no courier selected
TrackOneAuto ==
    /\ pc = "start"
    /\ selected \in {"", "auto"}
    /\ pc' = "auto"
    /\ StartSweep
    /\ UNCHANGED <<number, selected, out, log>>
    /\ UNCHANGED retryVars
    /\ UNCHANGED otherVars

\* lines 209, 219: the selected courier's retry has returned
TrackOneRetryReturns ==
    /\ pc = "explicit"
    /\ rpc = "returned"
    /\ pc' = "done"
    /\ out' = rret
    /\ UNCHANGED <<number, selected, log>>
    /\ UNCHANGED <<sweepVars, retryVars>>
    /\ UNCHANGED otherVars

\* lines 212/215, 219: the sweep has returned
TrackOneSweepReturns ==
    /\ pc = "auto"
    /\ spc = "returned"
    /\ pc' = "done"
    /\ out' = sret
    /\ UNCHANGED <<number, selected, log>>
    /\ UNCHANGED <<sweepVars, retryVars>>
    /\ UNCHANGED otherVars

\* lines 220-223: the sweep raised; the exception is logged, None returned
TrackOneSweepRaised ==
    /\ pc = "auto"
    /\ spc = "raised"
    /\ pc' = "done"
    /\ out' = NoneValue
    /\ UNCHANGED <<number, selected, log>>
    /\ UNCHANGED <<sweepVars, retryVars>>
    /\ UNCHANGED otherVars

Next ==
    \/ TrackOneSelected
    \/ TrackOneFallback
    \/ TrackOneAuto
    \/ SweepLoop
    \/ SweepRetryReturns
    \/ RetryCall
    \/ TrackReturns
    \/ TrackRaises
    \/ SleepDone
    \/ TrackOneRetryReturns
    \/ TrackOneSweepReturns
    \/ TrackOneSweepRaised

Spec == Init /\ [][Next]_vars

(***************************************************************************)
(* Vocabulary of the properties.                                           *)
(***************************************************************************)
\* the track calls and backoff delays of the current _track_with_retry
RetryLog == SelectSeq(log, LAMBDA e : e.courier = courier /\ e.op # "construct")

TrackCalls == Cardinality({i \in DOMAIN RetryLog : RetryLog[i].op = "track"})

Backoffs == Cardinality({i \in DOMAIN RetryLog : RetryLog[i].op = "sleep"})

IsResult(x) == x.kind = "result"

IsException(x) == x.kind = "exc"

\* criterion (a) of the retry policy: a confidently positive result
PositiveShape(x) ==
    /\ IsResult(x)
    /\ x.success = TRUE
    /\ x.status # "Not Found" /\ x.status # "Error"
    /\ (Len(x.events) > 0 \/ (x.status # "Unknown" /\ x.status # ""))

\* criterion (b): the confident negative
NotFoundShape(x) == IsResult(x) /\ x.success = TRUE /\ x.status = "Not Found"

\* a raised exception or a structured result that is not accepted
TransientFailure(x) == IsException(x) \/ (~PositiveShape(x) /\ ~NotFoundShape(x))

(***************************************************************************)
(* C1: bounded retry on one adapter.  For k in {0,1,2}: if the first k     *)
(* attempts are transient failures and attempt k+1 returns an acceptable   *)
(* result, _track_with_retry returns exactly that result after exactly k+1 *)
(* calls of track and exactly k backoff delays.                            *)
(***************************************************************************)
C1_BoundedRetry ==
    \A k \in 0..2 :
        ( /\ Len(hist) >= k + 1
          /\ \A i \in 1..k : TransientFailure(hist[i])
          /\ PositiveShape(hist[k + 1]) \/ NotFoundShape(hist[k + 1]) )
        => /\ rpc = "returned"
           /\ rret = hist[k + 1]
           /\ Len(hist) = k + 1
           /\ TrackCalls = k + 1
           /\ Backoffs = k

\* [transient_fail, transient_fail, success]: an exception, a rejected
\* result, then a positive result, returned after 3 calls and 2 backoffs
C1_Witness ==
    /\ rpc = "returned"
    /\ Len(hist) = 3
    /\ IsException(hist[1])
    /\ IsResult(hist[2]) /\ TransientFailure(hist[2])
    /\ PositiveShape(hist[3])
    /\ rret = hist[3]
    /\ TrackCalls = 3
    /\ Backoffs = 2

(***************************************************************************)
(* C2: a Not Found result is never retried.  At whichever attempt the      *)
(* adapter returns success=True with status 'Not Found', _track_with_retry *)
(* returns that result unchanged, with no further call of track and no     *)
(* backoff delay after it.                                                 *)
(***************************************************************************)
C2_NotFoundNotRetried ==
    \A i \in DOMAIN hist :
        NotFoundShape(hist[i])
        => /\ i = Len(hist)
           /\ rpc = "returned"
           /\ rret = hist[i]
           /\ TrackCalls = i
           /\ Backoffs = i - 1
           /\ RetryLog[Len(RetryLog)].op = "track"

\* a first-response Not Found: one track call, zero backoffs
C2_Witness ==
    /\ rpc = "returned"
    /\ Len(hist) = 1
    /\ NotFoundShape(hist[1])
    /\ rret = hist[1]
    /\ TrackCalls = 1
    /\ Backoffs = 0

(***************************************************************************)
(* C8: retry exhaustion.  When all 3 attempts finish without an accepted   *)
(* result, _track_with_retry returns the last attempt's result unchanged   *)
(* if that attempt produced a structured result; otherwise a synthesized   *)
(* result: success=False, status 'Error', status_category 'error', empty   *)
(* events, the adapter's code as courier, and an error_message containing  *)
(* the last exception's message.                                           *)
(***************************************************************************)
C8_RetryExhaustion ==
    ( /\ rpc = "returned"
      /\ Len(hist) = 3
      /\ \A i \in 1..3 : TransientFailure(hist[i]) )
    => IF IsResult(hist[3])
       THEN rret = hist[3]
       ELSE /\ IsResult(rret)
            /\ rret.success = FALSE
            /\ rret.status = "Error"
            /\ rret.status_category = "error"
            /\ rret.events = <<>>
            /\ rret.courier = courier
            /\ \E j \in DOMAIN rret.error_message :
                   rret.error_message[j] = hist[3].msg

\* three exceptions, the last with a message of its own: the synthesized
\* result carries the last message and not the first
C8_Witness ==
    /\ rpc = "returned"
    /\ Len(hist) = 3
    /\ \A i \in 1..3 : IsException(hist[i])
    /\ hist[1].msg # hist[3].msg
    /\ rret.status_category = "error"
    /\ rret.courier = courier
    /\ \E j \in DOMAIN rret.error_message : rret.error_message[j] = hist[3].msg
    /\ \A j \in DOMAIN rret.error_message : rret.error_message[j] # hist[1].msg

(***************************************************************************)
(* C9: retry bound.  In every execution of _track_with_retry track is      *)
(* called at least once and at most 3 times, a backoff delay occurs only   *)
(* between two consecutive attempts (at most 2, never after the final      *)
(* attempt), and the procedure always terminates.                          *)
(***************************************************************************)
C9_BoundInv ==
    /\ TrackCalls <= 3
    /\ Backoffs <= 2
    /\ rpc = "returned" => TrackCalls >= 1
    /\ \A i \in DOMAIN RetryLog :
        RetryLog[i].op = "sleep"
        => /\ i > 1
           /\ RetryLog[i - 1].op = "track"
           /\ i < Len(RetryLog) => RetryLog[i + 1].op = "track"
           /\ i = Len(RetryLog) => rpc \in {"sleeping", "attempt"} /\ TrackCalls < 3

\* the steps of _track_with_retry
RetryStep == RetryCall \/ TrackReturns \/ TrackRaises \/ SleepDone

RetryRunning == rpc \in {"attempt", "awaiting", "sleeping"}

\* what is left to do: 3 steps (call, completion, backoff) for each of the 3
\* attempts; termination is a variant that every step decreases while a
\* step is always possible
RetryVariant ==
    IF ~RetryRunning THEN 0
    ELSE 3 * (3 - attempt) - (CASE rpc = "attempt" -> 0
                                [] rpc = "awaiting" -> 1
                                [] rpc = "sleeping" -> 2)

C9_RetryBound ==
    /\ []C9_BoundInv
    /\ [](RetryRunning => RetryVariant > 0 /\ ENABLED RetryStep)
    /\ [][RetryRunning => RetryVariant' < RetryVariant]_vars

\* the longest execution: 3 calls, 2 backoffs, returned
C9_Witness ==
    /\ rpc = "returned"
    /\ TrackCalls = 3
    /\ Backoffs = 2
    /\ RetryLog[Len(RetryLog)].op = "track"

(***************************************************************************)
(* C10: retry acceptance criterion.  Whenever _track_with_retry returns    *)
(* before its final attempt, the returned result is (a) success=True with  *)
(* a status not in {'Not Found','Error'} and events or a non-placeholder   *)
(* status, or (b) a success=True 'Not Found'; any other outcome of a       *)
(* non-final attempt leads to a backoff and another attempt.               *)
(***************************************************************************)
C10_AcceptanceCriterion ==
    /\ (rpc = "returned" /\ TrackCalls < 3)
       => PositiveShape(rret) \/ NotFoundShape(rret)
    /\ \A i \in DOMAIN hist :
        (i < 3 /\ TransientFailure(hist[i]))
        => /\ Backoffs >= i
           /\ rpc # "returned" \/ TrackCalls > i

\* a placeholder result (success, no events, status 'Unknown') on the first
\* attempt was followed by a backoff and a second attempt, which returned
C10_Witness ==
    /\ rpc = "returned"
    /\ Len(hist) = 2
    /\ IsResult(hist[1]) /\ hist[1].success /\ hist[1].status = "Unknown"
    /\ hist[1].events = <<>>
    /\ PositiveShape(rret)
    /\ TrackCalls = 2
    /\ Backoffs = 1

(***************************************************************************)
(* Vocabulary of the sweep properties.                                     *)
(***************************************************************************)
SweepEnded == spc \in {"returned", "raised"}

NoExplicitCourier == selected \in {"", "auto"}

\* the adapters instantiated, and the adapters whose track was called, in
\* order
Constructed == SelectSeq(log, LAMBDA e : e.op = "construct")

Tracked == SelectSeq(log, LAMBDA e : e.op = "track")

RegistryPos(code) == CHOOSE i \in DOMAIN COURIER_REGISTRY : COURIER_REGISTRY[i] = code

NoConfidentOutcome == \A i \in DOMAIN outcomes : ~Confident(outcomes[i])

FirstConfident ==
    CHOOSE j \in DOMAIN outcomes :
        Confident(outcomes[j]) /\ \A i \in 1..(j - 1) : ~Confident(outcomes[i])

WellFormedResult(x) ==
    /\ IsResult(x)
    /\ x.success \in BOOLEAN
    /\ x.status_category \in {"delivered", "in_transit", "created", "unknown", "error"}
    /\ x.courier \in RegistryCodes \cup {"unknown"}

(***************************************************************************)
(* C3: all-courier sweep, first confident result wins.  The sweep invokes  *)
(* the adapters strictly in registry order and returns the retry outcome   *)
(* of the first adapter whose outcome has success=True and a status not in *)
(* {'Not Found','Error'}; no adapter after that one is invoked; an adapter *)
(* without such an outcome is followed by the next one.                    *)
(***************************************************************************)
C3_FirstConfidentWins ==
    SweepEnded
    => /\ spc = "returned"
       /\ \A i, j \in DOMAIN Tracked :
            i < j => RegistryPos(Tracked[i].courier) <= RegistryPos(Tracked[j].courier)
       /\ {Tracked[i].courier : i \in DOMAIN Tracked}
            = {COURIER_REGISTRY[i] : i \in DOMAIN outcomes}
       /\ IF NoConfidentOutcome
          THEN Len(outcomes) = Len(COURIER_REGISTRY)
          ELSE /\ sret = outcomes[FirstConfident]
               /\ Len(outcomes) = FirstConfident

(***************************************************************************)
(* C4 as claimed: with no explicit courier, a tracking number that matches *)
(* a courier's pattern is tracked with the detected courier's adapter      *)
(* only, and the all-courier sweep runs only when no courier is detected.  *)
(***************************************************************************)
C4_DetectedCourierOnly ==
    (NoExplicitCourier /\ MatchingCouriers(number) # {})
    => /\ spc = "idle"
       /\ \A i \in DOMAIN log : log[i].courier \in MatchingCouriers(number)

(***************************************************************************)
(* C4 as amended: with no explicit courier no detection step is taken: the *)
(* all-courier sweep is started for every tracking number, whether or not  *)
(* it matches a courier's pattern, and instantiates the adapters in        *)
(* registry order from the first one (elta).                               *)
(***************************************************************************)
C4_AlwaysSweep ==
    (NoExplicitCourier /\ pc # "start")
    => /\ spc # "idle"
       /\ \A i \in DOMAIN Constructed : Constructed[i].courier = COURIER_REGISTRY[i]
       /\ Tracked # <<>> => Tracked[1].courier = COURIER_REGISTRY[1]

\* a number with the Box Now prefix, no courier selected: the sweep has
\* called the ELTA adapter
C4_Witness ==
    /\ NoExplicitCourier
    /\ MatchingCouriers(number) = {"box_now"}
    /\ spc = "retry"
    /\ Tracked # <<>>
    /\ Tracked[1].courier = "elta"

(***************************************************************************)
(* C5: sweep with no confident result.  With no explicit courier and no    *)
(* courier detected, when every adapter ends with an error or a Not Found  *)
(* outcome, the sweep returns a result with success=False,                 *)
(* status_category 'error', the last adapter tried (the last of the 6) as  *)
(* courier and a non-empty error_message.                                  *)
(***************************************************************************)
C5_NoConfidentResult ==
    (NoExplicitCourier /\ MatchingCouriers(number) = {} /\ SweepEnded
        /\ NoConfidentOutcome)
    => /\ spc = "returned"
       /\ sret.success = FALSE
       /\ sret.status_category = "error"
       /\ sret.courier = COURIER_REGISTRY[Len(COURIER_REGISTRY)]
       /\ sret.error_message # <<>>

(***************************************************************************)
(* C6: sweep fallback.  When no adapter yields a confidently positive      *)
(* outcome the sweep returns exactly the retry outcome of the last adapter *)
(* in registry order, whatever its shape; the synthesized courier          *)
(* 'unknown' result is returned only when the registry is empty.           *)
(***************************************************************************)
C6_SweepFallback ==
    (SweepEnded /\ NoConfidentOutcome)
    => /\ spc = "returned"
       /\ IF COURIER_REGISTRY = <<>>
          THEN sret.courier = "unknown"
          ELSE /\ Len(outcomes) = Len(COURIER_REGISTRY)
               /\ sret = outcomes[Len(COURIER_REGISTRY)]

(***************************************************************************)
(* C7: nothing escapes the orchestrator.  Whatever the adapters do,        *)
(* track_with_auto_detect and _track_with_retry end by returning a         *)
(* well-formed TrackingResult; no exception reaches the caller.            *)
(***************************************************************************)
C7_NothingEscapes ==
    /\ spc # "raised"
    /\ spc = "returned" => WellFormedResult(sret)
    /\ rpc = "returned" => WellFormedResult(rret)

(***************************************************************************)
(* C11: explicit courier.  When the request names a courier code of the    *)
(* registry, that courier's adapter, and no other, is invoked through the  *)
(* bounded retry, and the returned result's courier is that code, also     *)
(* when the adapter reports Not Found or an error.                         *)
(***************************************************************************)
C11_ExplicitCourier ==
    (selected \in RegistryCodes /\ pc = "done")
    => /\ IsResult(out)
       /\ out.courier = selected
       /\ Tracked # <<>>
       /\ rpc = "returned" /\ courier = selected /\ out = rret
       /\ \A i \in DOMAIN log : log[i].courier = selected

(***************************************************************************)
(* Courier detection.  const.py holds the pattern sets (TRACKING_PATTERNS);*)
(* the detector itself (couriers.detect_courier, imported by               *)
(* tests/test_couriers.py) is not part of the sources and is modelled from *)
(* section 4.3 of the specification.                                       *)
(***************************************************************************)
\* longest run of digits of a generated tracking number
MaxDigits == 13

\* [A-Z]
UpperClass == UpperLetters

\* a literal character of a pattern
Lit(ch) == {ch}

\* ^ pre \d{lo,hi} post $ : pre and post are sequences of character classes
Pattern(pre, lo, hi, post) == [pre |-> pre, lo |-> lo, hi |-> hi, post |-> post]

\* re.match(pattern, t) for the anchored patterns of TRACKING_PATTERNS
ReMatch(p, t) ==
    LET k == Len(t) - Len(p.pre) - Len(p.post) IN
        /\ k \in p.lo..p.hi
        /\ \A i \in 1..Len(p.pre) : t[i] \in p.pre[i]
        /\ \A i \in 1..k : t[Len(p.pre) + i] \in Digits
        /\ \A i \in 1..Len(p.post) : t[Len(p.pre) + k + i] \in p.post[i]

\* mutant: a pattern added to the table that the detector does not know
TRACKING_PATTERNS_ExtraAcs ==
    [ elta |-> << Pattern(<<UpperClass, UpperClass>>, 9, 9, <<Lit("G"), Lit("R")>>),
                  Pattern(<<Lit("G"), Lit("R")>>, 9, 9, <<UpperClass, UpperClass>>) >>,
      acs |-> << Pattern(<<>>, 10, 10, <<>>), Pattern(<<>>, 9, 9, <<>>) >>,
      geniki |-> << Pattern(<<UpperClass, UpperClass>>, 9, 11, <<>>),
                    Pattern(<<>>, 10, 12, <<>>) >>,
      speedex |-> << Pattern(<<Lit("S"), Lit("P")>>, 8, 10, <<>>),
                     Pattern(<<>>, 12, 12, <<>>),
                     Pattern(<<>>, 9, 9, <<UpperClass, UpperClass>>) >>,
      courier_center |-> << Pattern(<<Lit("C"), Lit("C")>>, 8, 10, <<>>),
                            Pattern(<<>>, 10, 12, <<>>) >>,
      box_now |-> << Pattern(<<Lit("B"), Lit("N")>>, 8, 10, <<>>) >> ]

\* mutant: Box Now as the comment of const.py:71 has it, "10 digits
\* (similar to ACS)", without the BN prefix
TRACKING_PATTERNS_BoxNowNoPrefix ==
    [ elta |-> << Pattern(<<UpperClass, UpperClass>>, 9, 9, <<Lit("G"), Lit("R")>>),
                  Pattern(<<Lit("G"), Lit("R")>>, 9, 9, <<UpperClass, UpperClass>>) >>,
      acs |-> << Pattern(<<>>, 10, 10, <<>>) >>,
      geniki |-> << Pattern(<<UpperClass, UpperClass>>, 9, 11, <<>>),
                    Pattern(<<>>, 10, 12, <<>>) >>,
      speedex |-> << Pattern(<<Lit("S"), Lit("P")>>, 8, 10, <<>>),
                     Pattern(<<>>, 12, 12, <<>>),
                     Pattern(<<>>, 9, 9, <<UpperClass, UpperClass>>) >>,
      courier_center |-> << Pattern(<<Lit("C"), Lit("C")>>, 8, 10, <<>>),
                            Pattern(<<>>, 10, 12, <<>>) >>,
      box_now |-> << Pattern(<<>>, 10, 10, <<>>) >> ]

\* const.py:45-75
TRACKING_PATTERNS ==
    [ elta |-> << Pattern(<<UpperClass, UpperClass>>, 9, 9, <<Lit("G"), Lit("R")>>),
                  Pattern(<<Lit("G"), Lit("R")>>, 9, 9, <<UpperClass, UpperClass>>) >>,
      acs |-> << Pattern(<<>>, 10, 10, <<>>) >>,
      geniki |-> << Pattern(<<UpperClass, UpperClass>>, 9, 11, <<>>),
                    Pattern(<<>>, 10, 12, <<>>) >>,
      speedex |-> << Pattern(<<Lit("S"), Lit("P")>>, 8, 10, <<>>),
                     Pattern(<<>>, 12, 12, <<>>),
                     Pattern(<<>>, 9, 9, <<UpperClass, UpperClass>>) >>,
      courier_center |-> << Pattern(<<Lit("C"), Lit("C")>>, 8, 10, <<>>),
                            Pattern(<<>>, 10, 12, <<>>) >>,
      box_now |-> << Pattern(<<Lit("B"), Lit("N")>>, 8, 10, <<>>) >> ]

\* the couriers one of whose patterns the canonical number matches
PatternCouriers(t) ==
    {c \in DOMAIN TRACKING_PATTERNS :
        \E i \in DOMAIN TRACKING_PATTERNS[c] : ReMatch(TRACKING_PATTERNS[c][i], t)}

\* Section 4.3: the fixed priority order of the detector, from the most
\* specific pattern to the least specific.  First the patterns with a
\* distinguishing literal prefix or suffix, then the two with a letter class
\* only, then the bare digit-count patterns, narrowest range first.
DETECT_ORDER ==
    << <<"elta", 1>>, <<"elta", 2>>, <<"box_now", 1>>, <<"courier_center", 1>>,
       <<"speedex", 1>>,
       <<"geniki", 1>>, <<"speedex", 3>>,
       <<"acs", 1>>, <<"speedex", 2>>, <<"geniki", 2>>, <<"courier_center", 2>> >>

\* entry i of the order names a pattern of the table that matches t
OrderMatch(i, t) ==
    LET code == DETECT_ORDER[i][1]
        k == DETECT_ORDER[i][2] IN
        /\ k \in DOMAIN TRACKING_PATTERNS[code]
        /\ ReMatch(TRACKING_PATTERNS[code][k], t)

\* detect(tracking_number): the input is trimmed and upper-cased, the first
\* match in priority order is returned; "none" (Python's None) when no
\* pattern matches
detect_courier(tracking_number) ==
    LET t == Upper(Strip(tracking_number))
        hits == {i \in DOMAIN DETECT_ORDER : OrderMatch(i, t)} IN
        IF hits = {} THEN "none"
        ELSE DETECT_ORDER[CHOOSE i \in hits : \A j \in hits : i <= j][1]

(***************************************************************************)
(* The detector applied to generated tracking numbers.                     *)
(***************************************************************************)
DigitSeq == <<"1", "2", "3", "4", "5", "6", "7", "8", "9", "0">>

\* k digits: 1234567890123...
DigitRun(k) == [i \in 1..k |-> DigitSeq[((i - 1) % 10) + 1]]

\* letters in front of the digits: none, the couriers' prefixes, two other
\* letters, one letter
DetectPrefixes ==
    { <<>>, <<"S", "E">>, <<"G", "R">>, <<"B", "N">>, <<"C", "C">>,
      <<"S", "P">>, <<"G", "T">>, <<"X">> }

\* letters after the digits
DetectSuffixes == { <<>>, <<"G", "R">>, <<"A", "B">> }

\* str.lower on one character
LowerChar(ch) ==
    IF \E i \in 1..26 : UpperSeq[i] = ch
    THEN LowerSeq[CHOOSE i \in 1..26 : UpperSeq[i] = ch]
    ELSE ch

\* str.lower
Lower(s) == [i \in 1..Len(s) |-> LowerChar(s[i])]

\* the number as typed: canonical, or in lower case between blanks
AsTyped(t) == {t, <<" ">> \o Lower(t) \o <<" ", "\n">>}

DetectInputs ==
    UNION { AsTyped(pre \o DigitRun(k) \o post) :
                pre \in DetectPrefixes, k \in 7..MaxDigits, post \in DetectSuffixes }

\* no tracking request is running
NoRequest ==
    /\ number = <<>> /\ selected = "auto" /\ pc = "none" /\ out = NoneValue
    /\ spc = "idle" /\ idx = 0 /\ last_result = NoneValue /\ sret = NoneValue
    /\ outcomes = <<>>
    /\ rpc = "idle" /\ courier = "none" /\ tn = <<>> /\ attempt = 0
    /\ last_error = NoneValue /\ rret = NoneValue /\ hist = <<>>
    /\ log = <<>>

\* no options flow is open and no coordinator is set up
NoHost == flow = NoneValue /\ coord = NoneValue

DetectInit ==
    /\ NoRequest /\ NoHost
    /\ reqs = <<>>
    /\ \E n \in DetectInputs :
           fn = [op |-> "detect", arg |-> n, done |-> FALSE, value |-> "none"]

Detect ==
    /\ fn.op = "detect" /\ ~fn.done
    /\ fn' = [fn EXCEPT !.done = TRUE, !.value = detect_courier(fn.arg)]
    /\ UNCHANGED <<requestVars, reqs, hostVars>>

DetectNext == Detect

DetectSpec == DetectInit /\ [][DetectNext]_vars

Detected == fn.op = "detect" /\ fn.done

\* trimmed and upper-cased
Canonical(n) == Upper(Strip(n))

\* letters, then lo to hi digits, then letters
HasFormat(t, pre, lo, hi, post) ==
    /\ Len(t) - Len(pre) - Len(post) \in lo..hi
    /\ SubSeq(t, 1, Len(pre)) = pre
    /\ SubSeq(t, Len(t) - Len(post) + 1, Len(t)) = post
    /\ \A i \in (Len(pre) + 1)..(Len(t) - Len(post)) : t[i] \in Digits

MaxChunks == 2

\* most keys of a generated translation table
MaxKeys == 3

RECURSIVE StrLower(_)
\* str.lower
StrLower(s) ==
    IF s = "" THEN ""
    ELSE LowerChar(SubSeq(s, 1, 1)) \o StrLower(SubSeq(s, 2, Len(s)))

\* x in y, for strings
StrIn(x, y) ==
    \E i \in 0..(Len(y) - Len(x)) :
        /\ SubSeq(y, i + 1, i + Len(x)) = x
        /\ i = 0 \/ SubSeq(y, i, i) # "^"

\* mutant: one loop instead of two, the first key matching in any way wins
translate_status_OneLoop(status, translations) ==
    LET status_lower == StrLower(status)
        hits == {i \in DOMAIN translations :
                    \/ StrLower(translations[i][1]) = status_lower
                    \/ StrIn(StrLower(translations[i][1]), status_lower)
                    \/ StrIn(status_lower, StrLower(translations[i][1]))} IN
        IF hits # {}
        THEN translations[CHOOSE i \in hits : \A j \in hits : i <= j][2]
        ELSE status

\* BaseCourier.translate_status, base.py:68-90.  translations is the dict as
\* the sequence of its (key, value) items, in insertion order.
translate_status(status, translations) ==
    LET status_lower == StrLower(status)
        exact == {i \in DOMAIN translations :
                     StrLower(translations[i][1]) = status_lower}
        partial == {i \in DOMAIN translations :
                       \/ StrIn(StrLower(translations[i][1]), status_lower)
                       \/ StrIn(status_lower, StrLower(translations[i][1]))} IN
        IF exact # {}
        THEN translations[CHOOSE i \in exact : \A j \in exact : i <= j][2]
        ELSE IF partial # {}
        THEN translations[CHOOSE i \in partial : \A j \in partial : i <= j][2]
        ELSE status

\* one of the three keyword loops of get_status_category
AnyKeywordIn(keywords, status_lower) ==
    \E i \in DOMAIN keywords : StrIn(StrLower(keywords[i]), status_lower)

\* mutant: the in-transit loop moved in front of the delivered loop
get_status_category_TransitFirst(status, delivered_keywords, in_transit_keywords, created_keywords) ==
    LET status_lower == StrLower(status) IN
        IF AnyKeywordIn(in_transit_keywords, status_lower) THEN "in_transit"
        ELSE IF AnyKeywordIn(delivered_keywords, status_lower) THEN "delivered"
        ELSE IF AnyKeywordIn(created_keywords, status_lower) THEN "created"
        ELSE "unknown"

\* BaseCourier.get_status_category, base.py:92-120
get_status_category(status, delivered_keywords, in_transit_keywords, created_keywords) ==
    LET status_lower == StrLower(status) IN
        IF AnyKeywordIn(delivered_keywords, status_lower) THEN "delivered"
        ELSE IF AnyKeywordIn(in_transit_keywords, status_lower) THEN "in_transit"
        ELSE IF AnyKeywordIn(created_keywords, status_lower) THEN "created"
        ELSE "unknown"

(***************************************************************************)
(* The normalizer applied to generated status texts, keyword lists and     *)
(* translation tables.                                                     *)
(***************************************************************************)
\* elta.py:33-39
ELTA_STATUS_TRANSLATIONS ==
    << <<"^A^p^o^s^t^o^l^3 ^p^a^r^a^d^5^q^h^k^e", "Delivered">>,
       <<"^A^p^o^s^t^o^l^3 ^p^a^r^a^d^5^q^h^k^e ^s^e", "Delivered to">>,
       <<"^A^p^o^s^t^o^l^3 ^b^r^4^s^k^e^t^a^i ^s^e ^s^t^1^d^i^o ^m^e^t^a^f^o^r^1^j", "In Transit">>,
       <<"^D^h^m^i^o^u^r^g^4^a ^S^U.^D^E.^T^A.", "Shipment Created">>,
       <<"^P^a^r^a^l^a^b^3 ^a^p^5", "Picked up by">> >>

\* the keywords of the generated lists, in a fixed order
KeywordPool == <<"del", "TRA", "cre">>

\* one keyword list for every subset of the pool
KeywordLists ==
    { SelectSeq(KeywordPool, LAMBDA k : k \in S) :
          S \in SUBSET {KeywordPool[i] : i \in DOMAIN KeywordPool} }

StatusChunks == {"Del", "tra", "CRE", "x"}

RECURSIVE ChunkTexts(_)
\* the texts made of at most n chunks
ChunkTexts(n) ==
    IF n = 0 THEN {""}
    ELSE ChunkTexts(n - 1) \cup {w \o c : w \in ChunkTexts(n - 1), c \in StatusChunks}

CategoryInputs ==
    [ status : ChunkTexts(MaxChunks), delivered : KeywordLists,
      in_transit : KeywordLists, created : KeywordLists ]

\* keys that equal, contain and are contained in one another
KeyPool == {"ab", "abc", "B", "xy"}

\* the value a generated table gives a key
ValueOf(key) == "T:" \o key

\* the generated tables: every sequence of at most MaxKeys distinct keys
GeneratedTables ==
    { [i \in DOMAIN ks |-> <<ks[i], ValueOf(ks[i])>>] :
        ks \in { q \in UNION {[1..n -> KeyPool] : n \in 0..MaxKeys} :
                    \A i, j \in DOMAIN q : i # j => q[i] # q[j] } }

GeneratedStatuses == {"", "ab", "Ab", "ABC", "b", "zabcz", "zz", "T:ab"}

EltaStatuses ==
    { "^A^p^o^s^t^o^l^3 ^p^a^r^a^d^5^q^h^k^e", "^A^P^O^S^T^O^L^H ^P^A^R^A^D^O^Q^H^K^E", "^A^p^o^s^t^o^l^3 ^p^a^r^a^d^5^q^h^k^e ^s^e",
      "^A^p^o^s^t^o^l^3 ^p^a^r^a^d^5^q^h^k^e ^s^e ^q^u^r^4^d^a", "^p^a^r^a^d^5^q^h^k^e", "^P^a^r^a^l^a^b^3 ^a^p^5",
      "^E^p^i^s^t^r^o^f^3", "Delivered", "" }

TranslateInputs ==
    [status : GeneratedStatuses, translations : GeneratedTables]
    \cup [status : EltaStatuses, translations : {ELTA_STATUS_TRANSLATIONS}]

NormInit ==
    /\ NoRequest /\ NoHost
    /\ reqs = <<>>
    /\ \/ \E a \in CategoryInputs :
              fn = [op |-> "categorize", arg |-> a, done |-> FALSE, value |-> ""]
       \/ \E a \in TranslateInputs :
              fn = [op |-> "translate", arg |-> a, done |-> FALSE, value |-> ""]

Categorize ==
    /\ fn.op = "categorize" /\ ~fn.done
    /\ fn' = [fn EXCEPT !.done = TRUE,
                        !.value = get_status_category(fn.arg.status, fn.arg.delivered,
                                      fn.arg.in_transit, fn.arg.created)]
    /\ UNCHANGED <<requestVars, reqs, hostVars>>

Translate ==
    /\ fn.op = "translate" /\ ~fn.done
    /\ fn' = [fn EXCEPT !.done = TRUE,
                        !.value = translate_status(fn.arg.status, fn.arg.translations)]
    /\ UNCHANGED <<requestVars, reqs, hostVars>>

NormNext == Categorize \/ Translate

NormSpec == NormInit /\ [][NormNext]_vars

Categorized == fn.op = "categorize" /\ fn.done

Translated == fn.op = "translate" /\ fn.done

\* character i of a string
CharAt(s, i) == SubSeq(s, i, i)

\* k occurs in s at offset d, letter case ignored
OccursAt(k, s, d) ==
    /\ d + Len(k) <= Len(s)
    /\ d = 0 \/ CharAt(s, d) # "^"
    /\ \A j \in 1..Len(k) : LowerChar(CharAt(k, j)) = LowerChar(CharAt(s, d + j))

\* k is a case-insensitive substring of s
ContainsCI(s, k) == \E d \in 0..Len(s) : OccursAt(k, s, d)

\* some keyword of the list is a case-insensitive substring of s
SomeKeyword(list, s) == \E i \in DOMAIN list : ContainsCI(s, list[i])

(***************************************************************************)
(* C19: categorization priority.  get_status_category returns 'delivered'  *)
(* whenever a delivered keyword is a case-insensitive substring of the     *)
(* status, also when in-transit or created keywords match; otherwise       *)
(* 'in_transit' if an in-transit keyword matches, otherwise 'created' if a *)
(* created keyword matches, otherwise 'unknown'.                           *)
(***************************************************************************)
C19_CategorizationPriority ==
    Categorized =>
        LET a == fn.arg IN
            /\ SomeKeyword(a.delivered, a.status) => fn.value = "delivered"
            /\ (~SomeKeyword(a.delivered, a.status)
                    /\ SomeKeyword(a.in_transit, a.status)) => fn.value = "in_transit"
            /\ (~SomeKeyword(a.delivered, a.status)
                    /\ ~SomeKeyword(a.in_transit, a.status)
                    /\ SomeKeyword(a.created, a.status)) => fn.value = "created"
            /\ (~SomeKeyword(a.delivered, a.status)
                    /\ ~SomeKeyword(a.in_transit, a.status)
                    /\ ~SomeKeyword(a.created, a.status)) => fn.value = "unknown"

\* "traDel" with delivered = [del], in_transit = [TRA, cre] and
\* created = [del, TRA]: all three lists match, the in-transit keyword
\* comes first in the text, and the category is delivered
C19_Witness ==
    /\ Categorized
    /\ fn.arg.status = "traDel"
    /\ fn.arg.delivered = <<"del">>
    /\ fn.arg.in_transit = <<"TRA", "cre">>
    /\ fn.arg.created = <<"del", "TRA">>
    /\ fn.value = "delivered"

(***************************************************************************)
(* C20: translation rule.  translate_status returns the value of a key     *)
(* that equals the status case-insensitively whenever there is one,        *)
(* wherever it stands in the table and whatever other keys contain the     *)
(* status or are contained in it; only if no key is equal, the value of    *)
(* the first key in table order that contains the status or is contained   *)
(* in it; if no key matches either way, the status unchanged.              *)
(***************************************************************************)
C20_TranslationRule ==
    Translated =>
        LET t == fn.arg.translations
            st == fn.arg.status
            equal == {i \in DOMAIN t :
                         Len(t[i][1]) = Len(st) /\ OccursAt(t[i][1], st, 0)}
            partial == {i \in DOMAIN t :
                           ContainsCI(st, t[i][1]) \/ ContainsCI(t[i][1], st)} IN
            /\ equal # {} => \E i \in equal : fn.value = t[i][2]
            /\ (equal = {} /\ partial # {})
                   => \E i \in partial : /\ fn.value = t[i][2]
                                         /\ \A j \in partial : i <= j
            /\ (equal = {} /\ partial = {}) => fn.value = st

\* ELTA's table: the status equals the second key (elta.py:35) while the
\* first key (elta.py:34) is contained in it; the second key's value is
\* returned
C20_Witness ==
    /\ Translated
    /\ fn.arg.translations = ELTA_STATUS_TRANSLATIONS
    /\ fn.arg.status = "^A^p^o^s^t^o^l^3 ^p^a^r^a^d^5^q^h^k^e ^s^e"
    /\ ContainsCI(fn.arg.status, ELTA_STATUS_TRANSLATIONS[1][1])
    /\ fn.value = "Delivered to"

(***************************************************************************)
(* The courier adapters: track and the parsers (elta.py, acs.py,           *)
(* speedex.py, boxnow.py, geniki.py, courier_center.py).  The network is   *)
(* the input: what the HTTP exchange of one call of track produces.        *)
(***************************************************************************)
\* longest list of events a generated response body carries
MaxRawEvents == 2

\* an optional string that is set (None is NoneValue)
Str(text) == [kind |-> "str", text |-> text]

\* TrackingEvent, base.py:11-18; date, time and location are left out
TrackingEvent(status, status_translated) ==
    [kind |-> "event", status |-> status, status_translated |-> status_translated]

\* TrackingResult, base.py:21-33; latest_event and error_message default
\* to None
TrackingResult(success, tracking_number, code, status, status_category, events, latest_event, error_message) ==
    [kind |-> "result", success |-> success, tracking_number |-> tracking_number,
     courier |-> code, status |-> status, status_category |-> status_category,
     events |-> events, latest_event |-> latest_event,
     error_message |-> error_message]

\* mutant: a table one of whose values holds another of its keys
STATUS_TRANSLATIONS_ValueHoldsKey(code) ==
    << <<"In", "Inside">>, <<"InTransit", "In Transit">>,
       <<"DeliveryCompleted", "Delivered">> >>

\* STATUS_TRANSLATIONS of each adapter (elta.py:33-39, acs.py:28-33,
\* speedex.py:31-36, geniki.py:30-36, courier_center.py:30-35) and
\* BoxNowCourier.EVENT_TRANSLATIONS (boxnow.py:31-38), in insertion order
STATUS_TRANSLATIONS(code) ==
    CASE code = "elta" -> ELTA_STATUS_TRANSLATIONS
      [] code = "acs" ->
           << <<"^H ^a^p^o^s^t^o^l^3 ^p^a^r^e^l^3^f^q^h", "Shipment Received">>,
              <<"^H ^a^p^o^s^t^o^l^3 ^p^a^r^a^d^5^q^h^k^e", "Delivered">>,
              <<"^H ^a^p^o^s^t^o^l^3 ^b^r^4^s^k^e^t^a^i ^s^e ^d^i^1^k^r^i^s^h", "In Transit">>,
              <<"^H ^a^p^o^s^t^o^l^3 ^d^e^n ^b^r^2^q^h^k^e", "Not Found">> >>
      [] code = "speedex" ->
           << <<"^H ^A^P^O^S^T^O^L^H ^P^A^R^A^D^O^Q^H^K^E", "Delivered">>,
              <<"^S^E ^M^E^T^A^F^O^R^A", "In Transit">>,
              <<"^P^A^R^A^L^A^B^H", "Picked Up">>,
              <<"^A^P^O^S^T^O^L^H", "Shipped">> >>
      [] code = "geniki" ->
           << <<"^P^A^R^A^D^O^S^H", "Delivered">>,
              <<"^M^E^T^A^F^O^R^A", "In Transit">>,
              <<"^P^A^R^A^L^A^B^H", "Picked Up">>,
              <<"^K^R^A^T^H^S^H", "Held">>,
              <<"^E^P^I^S^T^R^O^F^H", "Returned">> >>
      [] code = "courier_center" ->
           << <<"DeliveryCompleted", "Delivered">>,
              <<"InTransit", "In Transit">>,
              <<"Received", "Received">>,
              <<"OutForDelivery", "Out for Delivery">> >>
      [] code = "box_now" ->
           << <<"new", "New Order">>,
              <<"in-depot", "In Depot">>,
              <<"final-destination", "At Destination Locker">>,
              <<"delivered", "Delivered">>,
              <<"expired", "Expired">>,
              <<"returned", "Returned">> >>

\* the delivered, in-transit and created keywords each parser passes to
\* get_status_category (elta.py:143-148, acs.py:166-171, speedex.py:160-165,
\* boxnow.py:151-156, geniki.py:140-145, courier_center.py:146-151)
CategoryKeywords(code) ==
    CASE code = "elta" -> << <<"^p^a^r^a^d^5^q^h^k^e", "delivered">>, <<"^m^e^t^a^f^o^r^1^j", "transit">>, <<"^d^h^m^i^o^u^r^g^4^a", "created", "^s^u.^d^e.^t^a.">> >>
      [] code = "acs" -> << <<"^p^a^r^a^d^5^q^h^k^e", "delivered">>, <<"^d^i^1^k^r^i^s^h", "transit">>, <<"^p^a^r^e^l^3^f^q^h", "received">> >>
      [] code = "speedex" -> << <<"^p^a^r^a^d^5^q^h^k", "delivered">>, <<"^m^e^t^a^f^o^r", "transit">>, <<"^p^a^r^a^l^a^b^3", "picked">> >>
      [] code = "geniki" -> << <<"^p^a^r^a^d^o^s", "delivered">>, <<"^m^e^t^a^f^o^r", "transit">>, <<"^p^a^r^a^l^a^b", "picked">> >>
      [] code = "courier_center" -> << <<"deliverycompleted", "delivered">>, <<"intransit", "transit">>, <<"received", "new">> >>
      [] code = "box_now" -> << <<"delivered">>, <<"depot", "destination">>, <<"new">> >>

\* dict.get(key, key) of boxnow.py:139 and 147
DictGet(translations, key) ==
    LET hits == {i \in DOMAIN translations : translations[i][1] = key} IN
        IF hits = {} THEN key ELSE translations[CHOOSE i \in hits : TRUE][2]

\* mutant: the events are built in reverse order
ParseEvents_Reversed(code, raws) ==
    [i \in DOMAIN raws |->
        TrackingEvent(raws[Len(raws) + 1 - i],
            translate_status(raws[Len(raws) + 1 - i], STATUS_TRANSLATIONS(code)))]

\* the events a parser builds from the raw status texts, in source order
ParseEvents(code, raws) ==
    [i \in DOMAIN raws |->
        TrackingEvent(raws[i],
            IF code = "box_now" THEN DictGet(STATUS_TRANSLATIONS(code), raws[i])
            ELSE translate_status(raws[i], STATUS_TRANSLATIONS(code)))]

\* str.upper on a status text; an accented small letter keeps its accent
\* and so never becomes a plain capital
RECURSIVE StrUpper(_)
StrUpper(s) ==
    IF s = "" THEN ""
    ELSE UpperChar(SubSeq(s, 1, 1)) \o StrUpper(SubSeq(s, 2, Len(s)))

\* mutant: the oldest event instead of the newest
LatestIsLast(events) == IF events # <<>> THEN events[Len(events)] ELSE NoneValue

\* latest = events[0] if events else None (elta.py:141, acs.py:162,
\* speedex.py:150, boxnow.py:144, geniki.py:137, courier_center.py:138)
Latest(events) == IF events # <<>> THEN events[1] ELSE NoneValue

\* the three error returns of track and the one of ELTA's parser
ErrorResult(code, tracking_number, error_message) ==
    TrackingResult(FALSE, tracking_number, code, "Error", "error", <<>>,
                   NoneValue, error_message)

\* _parse_response / _parse_html of each adapter.  data is the decoded body:
\*   outer     ELTA: the top-level "status"
\*   message   ELTA: the value of "result" where the source reads a text
\*             from it: a string, null (NoneValue) or absent
\*   inner     0: the not-found shape (ELTA: any other inner status; ACS: no
\*             items; Box Now: no data; the HTML pages: the marker
\*             element); 1: a shipment; 2: ELTA's informational message
\*   raws      the status texts of the shipment's events, newest first
\*             (Courier Center: of the rows after the header that carry a
\*             date)
\*   delivered ACS: isDelivered; Courier Center: the status element holds
\*             "DeliveryCompleted"
\*   state     Box Now: the parcel's state
ParseResponse(code, tracking_number, data) ==
    LET events == ParseEvents(code, data.raws)
        latest == Latest(events)
        newest == IF events # <<>> THEN events[1].status_translated ELSE "Unknown"
        kw == CategoryKeywords(code)
        category(status) == get_status_category(status, kw[1], kw[2], kw[3])
        not_found == TrackingResult(TRUE, tracking_number, code, "Not Found",
                                    "unknown", <<>>, NoneValue, NoneValue)
        found(status, status_category) ==
            TrackingResult(TRUE, tracking_number, code, status, status_category,
                           events, latest, NoneValue) IN
    CASE code = "elta" ->
           IF data.outer # 1
           THEN ErrorResult(code, tracking_number,
                    IF data.message.kind = "absent" THEN Str("Unknown error")
                    ELSE data.message)
           ELSE IF data.inner = 1 THEN found(newest, category(newest))
           ELSE IF data.inner = 2
           THEN TrackingResult(TRUE, tracking_number, code,
                    IF data.message.kind = "absent" THEN "Message" ELSE data.message.text,
                    "unknown", <<>>, NoneValue, NoneValue)
           ELSE not_found
      [] code = "acs" ->
           IF data.inner = 0 THEN not_found
           ELSE IF data.delivered THEN found("Delivered", "delivered")
           ELSE found(newest, category(newest))
      [] code = "box_now" ->
           IF data.inner = 0 THEN not_found
           ELSE LET status == DictGet(STATUS_TRANSLATIONS(code), data.state) IN
                    found(status, IF data.state = "delivered" THEN "delivered"
                                  ELSE category(status))
      [] code = "speedex" ->
           IF data.inner = 0 THEN not_found
           ELSE IF \E i \in DOMAIN events :
                       StrUpper(events[i].status) = "^H ^A^P^O^S^T^O^L^H ^P^A^R^A^D^O^Q^H^K^E"
           THEN found(newest, "delivered")
           ELSE found(newest, category(newest))
      [] code = "geniki" ->
           IF data.inner = 0 THEN not_found ELSE found(newest, category(newest))
      [] code = "courier_center" ->
           IF data.inner = 0 THEN not_found
           ELSE IF data.delivered THEN found(newest, "delivered")
           ELSE found(newest, category(newest))

\* track of each adapter.  response is what the HTTP exchange does:
\*   kind "http": the exchange completes with status code response.status
\*        and, for 200, the decoded body response.data; for ACS's 401,
\*        response.token is what _fetch_token returns and response.second
\*        the status of the repeated call
\*   kind "client_error": an aiohttp.ClientError with text response.message
\*   kind "timeout": the 30 s timeout expires (TimeoutError, no text)
\*   kind "exception": any other exception (a body that is not JSON, a
\*        body of another type than the parser reads), with its text
Track(code, raw_number, response) ==
    LET tracking_number == AdapterTn(code, raw_number) IN
    CASE response.kind = "client_error" ->
           ErrorResult(code, tracking_number, Str(response.message))
      [] response.kind = "timeout" ->
           ErrorResult(code, tracking_number, Str("Unexpected error: "))
      [] response.kind = "exception" ->
           ErrorResult(code, tracking_number,
                       Str("Unexpected error: " \o response.message))
      [] response.kind = "http" ->
           IF response.status = "200"
           THEN ParseResponse(code, tracking_number, response.data)
           ELSE IF /\ code = "acs" /\ response.status = "401"
                   /\ response.token # NoneValue /\ response.second = "200"
           THEN ParseResponse(code, tracking_number, response.data)
           ELSE ErrorResult(code, tracking_number,
                            Str("HTTP error: " \o response.status))

(***************************************************************************)
(* The adapters applied to generated HTTP exchanges.                       *)
(***************************************************************************)
\* the status texts of the events of a generated body: keys of the
\* adapter's table, a text the table does not know, and a missing text
RawTexts(code) ==
    CASE code = "elta" ->
           {"^A^p^o^s^t^o^l^3 ^p^a^r^a^d^5^q^h^k^e", "^A^p^o^s^t^o^l^3 ^b^r^4^s^k^e^t^a^i ^s^e ^s^t^1^d^i^o ^m^e^t^a^f^o^r^1^j", "^E^p^i^s^t^r^o^f^3", ""}
      [] code = "acs" ->
           {"^H ^a^p^o^s^t^o^l^3 ^p^a^r^a^d^5^q^h^k^e", "^H ^a^p^o^s^t^o^l^3 ^d^e^n ^b^r^2^q^h^k^e", "^H ^a^p^o^s^t^o^l^3 ^b^r^4^s^k^e^t^a^i ^s^e ^d^i^1^k^r^i^s^h", ""}
      [] code = "speedex" ->
           {"^H ^A^P^O^S^T^O^L^H ^P^A^R^A^D^O^Q^H^K^E", "^S^E ^M^E^T^A^F^O^R^A", "^A^G^N^W^S^T^O", ""}
      [] code = "geniki" ->
           {"^P^A^R^A^D^O^S^H", "^M^E^T^A^F^O^R^A", "^A^G^N^W^S^T^O", ""}
      [] code = "courier_center" ->
           {"DeliveryCompleted", "InTransit", "Unknown", ""}
      [] code = "box_now" ->
           {"delivered", "in-depot", "unknown-type", ""}

\* the decoded bodies of a 200 response; the fields an adapter does not read
\* keep one value
Bodies(code) ==
    LET raw_lists == UNION {[1..n -> RawTexts(code)] : n \in 0..MaxRawEvents}
        messages == {[kind |-> "absent"], NoneValue, Str(""), Str("Service unavailable")}
        all == [outer : {0, 1}, message : messages, inner : {0, 1, 2},
                raws : raw_lists, delivered : BOOLEAN,
                state : {"", "delivered", "in-depot"}] IN
    { d \in all :
        /\ d.inner # 1 => d.raws = <<>> /\ ~d.delivered /\ d.state = ""
        /\ code # "elta" => d.outer = 1 /\ d.inner # 2 /\ d.message.kind = "absent"
        /\ code = "elta" =>
              /\ d.outer = 0 => d.inner = 0
              /\ (d.outer = 1 /\ d.inner # 2) => d.message.kind = "absent"
              /\ (d.outer = 1 /\ d.inner = 2) => d.message.kind \in {"absent", "str"}
        /\ code \notin {"acs", "courier_center"} => ~d.delivered
        /\ code # "box_now" => d.state = "" }

\* what the HTTP exchange of one call of track can do
Responses(code) ==
    LET http(status, data, token, second) ==
            [kind |-> "http", status |-> status, data |-> data, token |-> token,
             second |-> second]
        no_body == CHOOSE d \in Bodies(code) : d.inner = 0 IN
    {http("200", d, NoneValue, "") : d \in Bodies(code)}
    \cup {http(st, no_body, NoneValue, "") : st \in {"404", "500"}}
    \cup (IF code = "acs"
          THEN {http("401", d, Str("token"), "200") : d \in Bodies(code)}
               \cup {http("401", no_body, Str("token"), "500"),
                     http("401", no_body, NoneValue, "")}
          ELSE {})
    \cup {[kind |-> "client_error", message |-> "Connection failed"],
          [kind |-> "timeout"],
          [kind |-> "exception", message |-> "Expecting value"]}

TrackInputs ==
    UNION { [code : {c}, number : Numbers, response : Responses(c)] :
                c \in RegistryCodes }

ResultInit ==
    \/ Init
    \/ /\ NoRequest /\ NoHost
       /\ reqs = <<>>
       /\ \E a \in TrackInputs :
              fn = [op |-> "track", arg |-> a, done |-> FALSE, value |-> NoneValue]

\* one call of courier.track on a constructed adapter
AdapterTrack ==
    /\ fn # NoneValue /\ fn.op = "track" /\ ~fn.done
    /\ fn' = [fn EXCEPT !.done = TRUE,
                        !.value = Track(fn.arg.code, fn.arg.number, fn.arg.response)]
    /\ UNCHANGED <<requestVars, reqs, hostVars>>

ResultNext == Next \/ AdapterTrack

\* every producer of a TrackingResult: the adapters on their own, and the
\* orchestrator within a tracking request
ResultSpec == ResultInit /\ [][ResultNext]_vars

AdapterTracked == fn # NoneValue /\ fn.op = "track" /\ fn.done

\* the exchange ends with a 200 response whose body the parser reads
Answered(a) ==
    /\ a.response.kind = "http"
    /\ \/ a.response.status = "200"
       \/ /\ a.code = "acs" /\ a.response.status = "401"
          /\ a.response.token # NoneValue /\ a.response.second = "200"

\* a failure path of track: no 200 response (another status, a transport
\* exception, the timeout, a body that cannot be decoded) or, for ELTA, a
\* body that reports an error of the API
FailurePath(a) ==
    \/ ~Answered(a)
    \/ a.code = "elta" /\ a.response.data.outer # 1

\* the results the orchestrator builds itself
Synthesized ==
    {x \in {rret, sret, out} :
        IsResult(x) /\ x.oid[1] \in {"_track_with_retry", "track_with_auto_detect"}}

(***************************************************************************)
(* C14: adapter failure shape.  For every adapter, every failure path of   *)
(* track (a non-200 status, a transport exception, the per-call timeout, a *)
(* malformed or unexpected payload) yields a returned TrackingResult with  *)
(* success=False, status 'Error', status_category 'error', no events and a *)
(* non-empty error_message; track never raises.                            *)
(***************************************************************************)
C14_AdapterFailureShape ==
    AdapterTracked =>
        /\ IsResult(fn.value)
        /\ FailurePath(fn.arg) =>
              /\ fn.value.success = FALSE
              /\ fn.value.status = "Error"
              /\ fn.value.status_category = "error"
              /\ fn.value.events = <<>>
              /\ fn.value.error_message # NoneValue
              /\ fn.value.error_message.text # ""

(***************************************************************************)
(* C15: Not Found shape.  Every TrackingResult produced by an adapter or   *)
(* by the orchestrator whose status is 'Not Found' has success=True and an *)
(* empty events list.                                                      *)
(***************************************************************************)
C15_NotFoundShape ==
    /\ (AdapterTracked /\ fn.value.status = "Not Found")
           => fn.value.success = TRUE /\ fn.value.events = <<>>
    /\ \A x \in Synthesized :
           x.status = "Not Found" => x.success = TRUE /\ x.events = <<>>

(***************************************************************************)
(* C16: latest_event.  For every TrackingResult produced by an adapter or  *)
(* by the orchestrator, latest_event is None if and only if events is      *)
(* empty, and when events is not empty latest_event is events[0].          *)
(***************************************************************************)
C16_LatestEvent ==
    /\ AdapterTracked =>
           /\ fn.value.latest_event = NoneValue <=> fn.value.events = <<>>
           /\ fn.value.events # <<>> => fn.value.latest_event = fn.value.events[1]
    /\ \A x \in {rret, sret, out} :
           IsResult(x) =>
               /\ x.latest_event = "None" <=> x.events = <<>>
               /\ x.events # <<>> => x.latest_event = x.events[1]

\* a parsed shipment with two different events: latest_event is the first
C16_Witness ==
    /\ AdapterTracked
    /\ Len(fn.value.events) = 2
    /\ fn.value.events[1] # fn.value.events[2]
    /\ fn.value.latest_event = fn.value.events[1]

(***************************************************************************)
(* C17: canonical tracking number.  For every input string (untrimmed, any *)
(* case) the tracking_number of the TrackingResult returned by an adapter, *)
(* by _track_with_retry or by track_with_auto_detect is the input trimmed  *)
(* and upper-cased.                                                        *)
(***************************************************************************)
C17_CanonicalTrackingNumber ==
    /\ AdapterTracked => fn.value.tracking_number = Upper(Strip(fn.arg.number))
    /\ rpc = "returned" => rret.tracking_number = Upper(Strip(tn))
    /\ spc = "returned" => sret.tracking_number = Upper(Strip(number))

(***************************************************************************)
(* The requests of one refresh.  _async_update_data starts one _track_one  *)
(* per active tracking number and gathers them (__init__.py:225-231); the  *)
(* coroutines interleave at their awaits: the call of courier.track and    *)
(* asyncio.sleep.  reqs[r] is request r:                                   *)
(*   selected  the configured courier                                      *)
(*   pc        "start", "attempt", "awaiting", "sleeping", "done"          *)
(*   idx       sweep: position in COURIER_REGISTRY, 0 for an explicit      *)
(*             courier                                                     *)
(*   code      the adapter _track_with_retry drives                        *)
(*   attempt   its loop variable                                           *)
(*   inflight  the calls of courier.track begun and not yet completed      *)
(*   trace     history: the starts and ends of calls and the sleeps        *)
(***************************************************************************)
\* tracking numbers refreshed together
NumRequests == 2

Requests == 1..NumRequests

\* what a completed call of track means to the retry loop: a result it
\* accepts as found, the Not Found result, or a failure (exception or
\* rejected result)
CallOutcomes == {"found", "not_found", "failed"}

ConcInit ==
    /\ NoRequest /\ NoHost
    /\ fn = NoneValue
    /\ reqs \in [Requests ->
                   [selected : {"elta", "acs", "auto"}, pc : {"start"}, idx : {0},
                    code : {"none"}, attempt : {0}, inflight : {{}},
                    trace : {<<>>}]]

TraceEntry(op, code, n) == [op |-> op, code |-> code, attempt |-> n]

\* _track_one up to its first await, __init__.py:196-216: get_courier and
\* _track_with_retry for an explicit courier (None when the constructor
\* raises), track_with_auto_detect otherwise
Begin(r) ==
    LET q == reqs[r]
        explicit == q.selected # "auto"
        first == IF explicit THEN q.selected ELSE COURIER_REGISTRY[1] IN
    /\ q.pc = "start"
    /\ reqs' = [reqs EXCEPT ![r] =
                  IF Instantiable(first)
                  THEN [q EXCEPT !.pc = "attempt", !.code = first,
                                 !.idx = IF explicit THEN 0 ELSE 1]
                  ELSE [q EXCEPT !.pc = "done"]]
    /\ UNCHANGED <<requestVars, fn, hostVars>>

\* mutant: the call is started as a task and not awaited; the loop goes on
CallStartNotAwaited(r) ==
    LET q == reqs[r] IN
    /\ q.pc = "attempt"
    /\ reqs' = [reqs EXCEPT ![r] =
                  [q EXCEPT !.attempt = IF @ < MAX_RETRIES - 1 THEN @ + 1 ELSE @,
                            !.pc = IF q.attempt < MAX_RETRIES - 1 THEN "attempt"
                                   ELSE "awaiting",
                            !.inflight = @ \cup {<<q.code, q.attempt>>},
                            !.trace = Append(@, TraceEntry("start", q.code, q.attempt))]]
    /\ UNCHANGED <<requestVars, fn, hostVars>>

\* result = await courier.track(tracking_number), couriers/__init__.py:147:
\* the call begins and the coroutine is suspended until it completes
CallStart(r) ==
    LET q == reqs[r] IN
    /\ q.pc = "attempt"
    /\ reqs' = [reqs EXCEPT ![r] =
                  [q EXCEPT !.pc = "awaiting",
                            !.inflight = @ \cup {<<q.code, q.attempt>>},
                            !.trace = Append(@, TraceEntry("start", q.code, q.attempt))]]
    /\ UNCHANGED <<requestVars, fn, hostVars>>

\* the call completes; _track_with_retry returns, or goes to its backoff
\* (lines 154-203); when it returns, the caller goes on without an await:
\* _track_one ends, or the sweep takes the result or constructs the next
\* adapter (lines 81-113; the request ends when the constructor raises)
CallEnd(r, outcome) ==
    LET q == reqs[r]
        ended == [q EXCEPT !.inflight = @ \ {<<q.code, q.attempt>>},
                           !.trace = Append(@, TraceEntry("end", q.code, q.attempt))]
        returns == outcome # "failed" \/ q.attempt >= MAX_RETRIES - 1
        goes_on == /\ q.idx > 0 /\ outcome # "found"
                   /\ q.idx < Len(COURIER_REGISTRY)
                   /\ Instantiable(COURIER_REGISTRY[q.idx + 1]) IN
    /\ q.pc = "awaiting"
    /\ reqs' = [reqs EXCEPT ![r] =
                  IF ~returns THEN [ended EXCEPT !.pc = "sleeping"]
                  ELSE IF goes_on
                  THEN [ended EXCEPT !.pc = "attempt", !.idx = @ + 1,
                                      !.code = COURIER_REGISTRY[q.idx + 1],
                                      !.attempt = 0]
                  ELSE [ended EXCEPT !.pc = "done"]]
    /\ UNCHANGED <<requestVars, fn, hostVars>>

\* await asyncio.sleep(delay) is over, lines 182 and 202; next iteration
SleepEnd(r) ==
    LET q == reqs[r] IN
    /\ q.pc = "sleeping"
    /\ reqs' = [reqs EXCEPT ![r] =
                  [q EXCEPT !.pc = "attempt", !.attempt = @ + 1,
                            !.trace = Append(@, TraceEntry("slept", q.code, q.attempt))]]
    /\ UNCHANGED <<requestVars, fn, hostVars>>

ConcNext ==
    \E r \in Requests :
        \/ Begin(r)
        \/ CallStart(r)
        \/ \E outcome \in CallOutcomes : CallEnd(r, outcome)
        \/ SleepEnd(r)

ConcSpec == ConcInit /\ [][ConcNext]_vars

\* every start of a call in a request's history is in its place: a retry
\* (attempt > 0) directly follows the sleep that followed the end of the
\* attempt before it on the same adapter; a first attempt is the request's
\* first call, or directly follows the end of a call of the adapter before
\* it in the sweep
StartsInOrder(t) ==
    \A i \in DOMAIN t :
        t[i].op = "start" =>
            IF t[i].attempt > 0
            THEN /\ i > 2
                 /\ t[i - 1] = TraceEntry("slept", t[i].code, t[i].attempt - 1)
                 /\ t[i - 2] = TraceEntry("end", t[i].code, t[i].attempt - 1)
            ELSE \/ i = 1
                 \/ /\ t[i - 1].op = "end"
                    /\ RegistryPos(t[i - 1].code) + 1 = RegistryPos(t[i].code)

TableTexts(translations) ==
    LET entries == UNION {{translations[i][1], translations[i][2]} :
                             i \in DOMAIN translations} IN
    {""} \cup entries
         \cup {StrLower(e) : e \in entries} \cup {StrUpper(e) : e \in entries}
         \cup {e \o " x" : e \in entries} \cup {"x " \o e : e \in entries}
         \cup UNION {{SubSeq(e, 1, n) : n \in {m \in 1..Len(e) : SubSeq(e, m, m) # "^"}} :
                        e \in entries}

AdapterTables == {STATUS_TRANSLATIONS(code) : code \in RegistryCodes}

RetranslateInit ==
    /\ NoRequest /\ NoHost
    /\ reqs = <<>>
    /\ \E t \in AdapterTables : \E st \in TableTexts(t) :
           fn = [op |-> "translate", arg |-> [status |-> st, translations |-> t],
                 done |-> FALSE, value |-> ""]

\* the value translate_status returned is translated with the same table
TranslateAgain ==
    /\ fn # NoneValue /\ fn.op = "translate" /\ fn.done
    /\ fn' = [op |-> "translate_again",
              arg |-> [status |-> fn.value, translations |-> fn.arg.translations],
              done |-> TRUE,
              value |-> translate_status(fn.value, fn.arg.translations)]
    /\ UNCHANGED <<requestVars, reqs, hostVars>>

RetranslateNext == Translate \/ TranslateAgain

RetranslateSpec == RetranslateInit /\ [][RetranslateNext]_vars

TranslatedAgain == fn.op = "translate_again"

TableKeys(t) == {t[i][1] : i \in DOMAIN t}

TableValues(t) == {t[i][2] : i \in DOMAIN t}

\* some key of the table equals, contains or is contained in the status,
\* letter case ignored
MatchesKey(st, t) ==
    \E k \in TableKeys(t) : ContainsCI(st, k) \/ ContainsCI(k, st)

\* C21 as stated: translation is idempotent for each adapter's table,
\* translate(translate(s, T), T) = translate(s, T); a status that is already
\* a translated value of T, or that is not a key of T, is returned unchanged.
C21_TranslationIdempotence ==
    /\ TranslatedAgain => fn.value = fn.arg.status
    /\ (Translated /\ fn.arg.status \in TableValues(fn.arg.translations))
           => fn.value = fn.arg.status
    /\ (Translated /\ fn.arg.status \notin TableKeys(fn.arg.translations))
           => fn.value = fn.arg.status

\* C21 amended: translation is idempotent for each adapter's table; a
\* status that is a translated value of T, or that no key of T equals,
\* contains or is contained in (letter case ignored), is returned unchanged.
C21_IdempotentOnValuesAndUnmatched ==
    /\ TranslatedAgain => fn.value = fn.arg.status
    /\ (Translated /\ fn.arg.status \in TableValues(fn.arg.translations))
           => fn.value = fn.arg.status
    /\ (Translated /\ ~MatchesKey(fn.arg.status, fn.arg.translations))
           => fn.value = fn.arg.status

\* a Greek status was translated by a partial match, and translating its
\* English value again has left it as it was
C21_Witness ==
    /\ TranslatedAgain
    /\ fn.arg.translations = ELTA_STATUS_TRANSLATIONS
    /\ fn.arg.status = "Delivered to"
    /\ fn.value = "Delivered to"

(***************************************************************************)
(* C22: ELTA response mapping.  For a 200 JSON response that carries a     *)
(* result, the inner state under the queried tracking number gives one of  *)
(* three shapes.  Inner status 1: success, one event per source entry in   *)
(* source order, the status is the translated status of the newest event   *)
(* and the category is derived from it (the single event 'Apostoli         *)
(* paradothike' gives 'Delivered', 'delivered', 1 event).  Inner status 2: *)
(* success, the informational message as status, category 'unknown', no    *)
(* events.  Anything else: success, 'Not Found', 'unknown', no events.     *)
(***************************************************************************)
C22_EltaResponseMapping ==
    (/\ AdapterTracked /\ fn.arg.code = "elta"
     /\ fn.arg.response.kind = "http" /\ fn.arg.response.status = "200"
     /\ fn.arg.response.data.outer = 1)
    => LET d == fn.arg.response.data
           v == fn.value
           kw == CategoryKeywords("elta") IN
       /\ v.success /\ v.error_message = NoneValue
       /\ d.inner = 1 =>
             /\ Len(v.events) = Len(d.raws)
             /\ \A i \in DOMAIN d.raws :
                    /\ v.events[i].status = d.raws[i]
                    /\ v.events[i].status_translated
                          = translate_status(d.raws[i], ELTA_STATUS_TRANSLATIONS)
             /\ d.raws # <<>> => v.status = v.events[1].status_translated
             /\ v.status_category
                   = (IF SomeKeyword(kw[1], v.status) THEN "delivered"
                      ELSE IF SomeKeyword(kw[2], v.status) THEN "in_transit"
                      ELSE IF SomeKeyword(kw[3], v.status) THEN "created"
                      ELSE "unknown")
             /\ d.raws = <<"^A^p^o^s^t^o^l^3 ^p^a^r^a^d^5^q^h^k^e">>
                   => /\ v.status = "Delivered" /\ v.status_category = "delivered"
                      /\ Len(v.events) = 1
       /\ d.inner = 2 =>
             /\ d.message.kind = "str" => v.status = d.message.text
             /\ v.status_category = "unknown" /\ v.events = <<>>
       /\ d.inner \notin {1, 2} =>
             /\ v.status = "Not Found"
             /\ v.status_category = "unknown" /\ v.events = <<>>

\* two events, the newer one in transit and the older one delivered: the
\* result has both in source order and the status of the newer one
C22_Witness ==
    /\ AdapterTracked /\ fn.arg.code = "elta"
    /\ fn.arg.response.kind = "http" /\ fn.arg.response.status = "200"
    /\ fn.arg.response.data.outer = 1 /\ fn.arg.response.data.inner = 1
    /\ Len(fn.arg.response.data.raws) = 2
    /\ fn.value.events[2].status_translated = "Delivered"
    /\ fn.value.status = "In Transit"
    /\ fn.value.status_category = "in_transit"

(***************************************************************************)
(* ACSCourier.track step by step (acs.py:36-123).  fn is the call:         *)
(*   pc     "first": the API call without a token is awaited; "token":     *)
(*          _fetch_token is awaited; "second": the API call with the token *)
(*          is awaited; "done": track has returned fn.value                *)
(*   calls  the HTTP requests made so far and how each ended               *)
(*   token  what _fetch_token returned                                     *)
(* The network decides how each request ends: a status code (with a body   *)
(* for 200), or an exception (ClientError, the 30 s timeout).              *)
(***************************************************************************)
AcsInit ==
    /\ NoRequest /\ NoHost
    /\ reqs = <<>>
    /\ \E n \in Numbers :
           fn = [op |-> "acs_track", arg |-> [number |-> n], pc |-> "first",
                 calls |-> <<>>, token |-> NoneValue, value |-> NoneValue]

\* a request of the call has ended
Called(op, outcome) == [fn EXCEPT !.calls = Append(@, [op |-> op, outcome |-> outcome])]

\* track returns
Returned(call, result) == [call EXCEPT !.pc = "done", !.value = result]

AcsStatuses == {"200", "401", "404", "500"}

\* session.get(url, headers=headers) without a token, acs.py:55-63 and the
\* return and except clauses, 72-104
AcsApiCall ==
    LET tracking_number == AdapterTn("acs", fn.arg.number) IN
    /\ fn # NoneValue /\ fn.op = "acs_track" /\ fn.pc = "first"
    /\ \/ \E data \in Bodies("acs") :
              fn' = Returned(Called("api", "200"),
                             ParseResponse("acs", tracking_number, data))
       \/ fn' = [Called("api", "401") EXCEPT !.pc = "token"]
       \/ \E st \in AcsStatuses \ {"200", "401"} :
              fn' = Returned(Called("api", st),
                             ErrorResult("acs", tracking_number, Str("HTTP error: " \o st)))
       \/ fn' = Returned(Called("api", "raised"),
                         ErrorResult("acs", tracking_number, Str("Connection failed")))
    /\ UNCHANGED <<requestVars, reqs, hostVars>>

\* mutant: a failed token fetch is tried again
AcsFetchToken_Again ==
    LET tracking_number == AdapterTn("acs", fn.arg.number) IN
    /\ fn # NoneValue /\ fn.op = "acs_track" /\ fn.pc = "token"
    /\ \/ fn' = [Called("token", "found") EXCEPT !.pc = "second", !.token = Str("token")]
       \/ /\ Len(fn.calls) < 4
          /\ fn' = Called("token", "none")
       \/ fn' = Returned(Called("token", "timeout"),
                         ErrorResult("acs", tracking_number, Str("Unexpected error: ")))
    /\ UNCHANGED <<requestVars, reqs, hostVars>>

\* token = await self._fetch_token(session), acs.py:66 and 106-123: the
\* marker's value, or None (page not 200, no marker, an exception inside);
\* the 30 s timeout of track cancels it and track returns an error
AcsFetchToken ==
    LET tracking_number == AdapterTn("acs", fn.arg.number) IN
    /\ fn # NoneValue /\ fn.op = "acs_track" /\ fn.pc = "token"
    /\ \/ fn' = [Called("token", "found") EXCEPT !.pc = "second", !.token = Str("token")]
       \/ fn' = Returned(Called("token", "none"),
                         ErrorResult("acs", tracking_number, Str("HTTP error: 401")))
       \/ fn' = Returned(Called("token", "timeout"),
                         ErrorResult("acs", tracking_number, Str("Unexpected error: ")))
    /\ UNCHANGED <<requestVars, reqs, hostVars>>

\* session.get(url, headers=headers) with x-encrypted-key, acs.py:67-72;
\* the error of a status other than 200 names the first response's status
AcsAuthCall ==
    LET tracking_number == AdapterTn("acs", fn.arg.number) IN
    /\ fn # NoneValue /\ fn.op = "acs_track" /\ fn.pc = "second"
    /\ \/ \E data \in Bodies("acs") :
              fn' = Returned(Called("api_token", "200"),
                             ParseResponse("acs", tracking_number, data))
       \/ \E st \in AcsStatuses \ {"200"} :
              fn' = Returned(Called("api_token", st),
                             ErrorResult("acs", tracking_number, Str("HTTP error: 401")))
       \/ fn' = Returned(Called("api_token", "raised"),
                         ErrorResult("acs", tracking_number, Str("Connection failed")))
    /\ UNCHANGED <<requestVars, reqs, hostVars>>

AcsNext == AcsApiCall \/ AcsFetchToken \/ AcsAuthCall

AcsSpec == AcsInit /\ [][AcsNext]_vars

AcsCalls(op) == {i \in DOMAIN fn.calls : fn.calls[i].op = op}

(***************************************************************************)
(* C23: the two-step token protocol of ACS.  Within one call of track the  *)
(* token page is fetched only after the first API call, made without a     *)
(* token, returned 401, and at most once; the API call is repeated with    *)
(* the token at most once and only if a token was obtained; if the token   *)
(* fetch fails or the call with the token is not 200, track returns an     *)
(* error result (success False, category 'error'): it does not raise or    *)
(* loop.                                                                   *)
(***************************************************************************)
C23_AcsTokenProtocol ==
    (fn # NoneValue /\ fn.op = "acs_track") =>
        /\ Len(fn.calls) <= 3
        /\ fn.calls # <<>> => fn.calls[1].op = "api"
        /\ Cardinality(AcsCalls("api")) <= 1
        /\ Cardinality(AcsCalls("token")) <= 1
        /\ Cardinality(AcsCalls("api_token")) <= 1
        /\ \A i \in AcsCalls("token") :
               i = 2 /\ fn.calls[1] = [op |-> "api", outcome |-> "401"]
        /\ \A i \in AcsCalls("api_token") :
               /\ i = 3 /\ fn.calls[2] = [op |-> "token", outcome |-> "found"]
               /\ fn.token # NoneValue
        /\ (\/ \E i \in AcsCalls("token") : fn.calls[i].outcome # "found"
            \/ \E i \in AcsCalls("api_token") : fn.calls[i].outcome # "200")
               => /\ fn.pc = "done"
                  /\ IsResult(fn.value)
                  /\ ~fn.value.success /\ fn.value.status_category = "error"

\* the token was fetched after a 401 and the call with the token was
\* rejected too: track has returned an error result after three requests
C23_Witness ==
    /\ fn # NoneValue /\ fn.op = "acs_track" /\ fn.pc = "done"
    /\ Len(fn.calls) = 3
    /\ fn.calls[3] = [op |-> "api_token", outcome |-> "401"]
    /\ ~fn.value.success

(***************************************************************************)
(* _parse_tracking_numbers (config_flow.py:77-126).  The input text is a   *)
(* sequence of characters; a parsed item is a record with the fields of    *)
(* the dict the source appends.                                            *)
(***************************************************************************)
\* longest input text
MaxInput == 5

InputChars == {"a", "A", "b", " ", ":", ",", "\n"}

Separators == {",", "\n"}

RECURSIVE Pieces(_)
\* the text cut at every separator character
Pieces(value) ==
    IF \A i \in DOMAIN value : value[i] \notin Separators THEN <<value>>
    ELSE LET k == CHOOSE i \in DOMAIN value :
                      /\ value[i] \in Separators
                      /\ \A j \in 1..(i - 1) : value[j] \notin Separators IN
             <<SubSeq(value, 1, k - 1)>> \o Pieces(SubSeq(value, k + 1, Len(value)))

\* re.split(r"[,\n]+", value), line 93: a run of separators cuts once, so
\* there is no empty piece between two separators of a run
ReSplit(value) ==
    LET ps == Pieces(value)
        keep == {i \in DOMAIN ps : ps[i] # <<>> \/ i = 1 \/ i = Len(ps)}
        nth(n) == CHOOSE i \in keep : Cardinality({j \in keep : j < i}) = n - 1 IN
    [n \in 1..Cardinality(keep) |-> ps[nth(n)]]

\* the item of one stripped, non-empty line, lines 104-110 and 117-122
ParseLine(line, courier_arg) ==
    LET colons == {i \in DOMAIN line : line[i] = ":"}
        c == CHOOSE i \in colons : \A j \in colons : i <= j
        tracking_number == IF colons # {} THEN Upper(Strip(SubSeq(line, 1, c - 1)))
                           ELSE Upper(line)
        rest == IF colons # {} THEN Strip(SubSeq(line, c + 1, Len(line))) ELSE <<>> IN
    [tracking_number |-> tracking_number,
     name |-> IF rest # <<>> THEN rest ELSE tracking_number,
     stop_tracking_delivered |-> FALSE,
     courier |-> courier_arg]

RECURSIVE ParseLines(_, _, _)
\* the loop of lines 98-122 over the pieces not yet read; result is the list
\* built so far (seen_numbers holds its tracking numbers)
ParseLines(lines, courier_arg, result) ==
    IF lines = <<>> THEN result
    ELSE LET line == Strip(Head(lines))
             item == ParseLine(line, courier_arg)
             seen_numbers == {result[i].tracking_number : i \in DOMAIN result} IN
         IF line = <<>> \/ item.tracking_number \in seen_numbers
         THEN ParseLines(Tail(lines), courier_arg, result)
         ELSE ParseLines(Tail(lines), courier_arg, Append(result, item))

parse_tracking_numbers(value, courier_arg) ==
    ParseLines(ReSplit(value), courier_arg, <<>>)

ParseInputs ==
    [value : UNION {[1..n -> InputChars] : n \in 0..MaxInput},
     courier : {"auto", "elta"}]

ParseInit ==
    /\ NoRequest /\ NoHost
    /\ reqs = <<>>
    /\ \E a \in ParseInputs :
           fn = [op |-> "parse", arg |-> a, done |-> FALSE, value |-> <<>>]

Parse ==
    /\ fn # NoneValue /\ fn.op = "parse" /\ ~fn.done
    /\ fn' = [fn EXCEPT !.done = TRUE,
                        !.value = parse_tracking_numbers(fn.arg.value, fn.arg.courier)]
    /\ UNCHANGED <<requestVars, reqs, hostVars>>

ParseNext == Parse

ParseSpec == ParseInit /\ [][ParseNext]_vars

Parsed == fn # NoneValue /\ fn.op = "parse" /\ fn.done

\* the entries the input text holds: its pieces between separators that
\* are not blank, trimmed, in order
Entries(value) ==
    LET ps == Pieces(value) IN
        [i \in DOMAIN ps |-> Strip(ps[i])]

\* the tracking number an entry names: the text before its first ':'
\* trimmed and upper-cased
EntryNumber(e) ==
    IF \E i \in DOMAIN e : e[i] = ":"
    THEN Upper(Strip(SubSeq(e, 1, (CHOOSE i \in DOMAIN e :
                                      e[i] = ":" /\ \A j \in 1..(i - 1) : e[j] # ":") - 1)))
    ELSE Upper(e)

\* the text after the first ':' of an entry, trimmed; empty without a ':'
EntryName(e) ==
    IF \E i \in DOMAIN e : e[i] = ":"
    THEN Strip(SubSeq(e, (CHOOSE i \in DOMAIN e :
                             e[i] = ":" /\ \A j \in 1..(i - 1) : e[j] # ":") + 1, Len(e)))
    ELSE <<>>

(***************************************************************************)
(* C25: normal form of _parse_tracking_numbers.  For every comma/newline   *)
(* separated input the output has exactly one entry per distinct non-empty *)
(* tracking number, in first-occurrence order, each tracking number        *)
(* trimmed and upper-cased, the name equal to the text after the first ':' *)
(* when that is non-empty and to the tracking number otherwise,            *)
(* stop_tracking_delivered False and courier equal to the courier          *)
(* argument.                                                               *)
(***************************************************************************)
C25_ParseNormalForm ==
    Parsed =>
        LET items == fn.value
            es == Entries(fn.arg.value)
            first(t) == CHOOSE i \in DOMAIN es :
                            /\ EntryNumber(es[i]) = t /\ es[i] # <<>>
                            /\ \A j \in 1..(i - 1) : EntryNumber(es[j]) # t \/ es[j] = <<>> IN
        /\ {items[i].tracking_number : i \in DOMAIN items}
              = {EntryNumber(es[i]) : i \in DOMAIN es} \ {<<>>}
        /\ \A i, j \in DOMAIN items :
               i < j => /\ items[i].tracking_number # items[j].tracking_number
                        /\ first(items[i].tracking_number) < first(items[j].tracking_number)
        /\ \A i \in DOMAIN items :
               LET t == items[i].tracking_number IN
               /\ t # <<>> /\ t = Upper(Strip(t))
               /\ items[i].name = (IF EntryName(es[first(t)]) # <<>>
                                 THEN EntryName(es[first(t)]) ELSE t)
               /\ items[i].stop_tracking_delivered = FALSE
               /\ items[i].courier = fn.arg.courier

(***************************************************************************)
(* The options flow (config_flow.py:237-397).  flow is                     *)
(*   saved          the tracking list of the config entry's options        *)
(*   step           "closed": no flow object; "init", "add_tracking": the  *)
(*                  form the open flow shows                               *)
(*   migrated_data  the open flow's list                                   *)
(*   answer         what the last step returned: a form with its errors,   *)
(*                  or create_entry with its data                          *)
(*   submitted      history: the last add_tracking submission and the list *)
(*                  it met                                                 *)
(* An item is a record with the fields of the source's dict.               *)
(***************************************************************************)
TrackingItem(tracking_number, name, stop_tracking_delivered, code) ==
    [tracking_number |-> tracking_number, name |-> name,
     stop_tracking_delivered |-> stop_tracking_delivered, courier |-> code]

\* what the user types as a tracking number: nothing, blanks, and two
\* numbers as stored or in small letters with blanks around
TypedNumbers ==
    {<<>>, <<" ">>, <<"A", "1">>, <<" ", "a", "1", " ">>, <<"B", "2">>,
     <<" ", "b", "2">>}

\* user_input of add_tracking; a courier of NoneValue is a missing key.
\* The errors dict of a form is the sequence of its (field, error) items.
AddTrackingInputs ==
    [tracking_number : TypedNumbers, name : {<<" ">>, <<"n">>},
     stop_tracking_delivered : BOOLEAN, courier : {NoneValue, Str("elta")}]

\* the entry as async_step_user created it, config_flow.py:148-170
FlowInit ==
    /\ NoRequest /\ fn = NoneValue /\ reqs = <<>> /\ coord = NoneValue
    /\ \E t \in {<<"A", "1">>, <<"B", "2">>} : \E c \in {"auto", "elta"} :
           flow = [saved |-> <<TrackingItem(t, t, FALSE, c)>>, step |-> "closed",
                   migrated_data |-> <<>>, answer |-> NoneValue,
                   submitted |-> NoneValue]

Form(step_id, errors) == [type |-> "form", step_id |-> step_id, errors |-> errors]

\* the host opens the flow: __init__ with _migrate_data_if_needed (the list
\* is in the current format) and async_step_init(None), lines 240-351
OpenFlow ==
    /\ flow # NoneValue /\ flow.step = "closed"
    /\ flow' = [flow EXCEPT !.step = "init", !.migrated_data = flow.saved,
                            !.answer = Form("init", <<>>),
                            !.submitted = NoneValue]
    /\ UNCHANGED <<requestVars, fn, reqs, coord>>

\* async_step_init with the add button, lines 293-294, and
\* async_step_add_tracking(None), which shows its form
PressAdd ==
    /\ flow # NoneValue /\ flow.step = "init"
    /\ flow' = [flow EXCEPT !.step = "add_tracking",
                            !.answer = Form("add_tracking", <<>>)]
    /\ UNCHANGED <<requestVars, fn, reqs, coord>>

\* mutant: the number is compared as typed
add_tracking_AsTyped(migrated_data, user_input) ==
    LET tracking_number == user_input.tracking_number
        name == Strip(user_input.name)
        code == IF user_input.courier = NoneValue THEN "auto" ELSE user_input.courier.text
        exists == \E i \in DOMAIN migrated_data :
                      migrated_data[i].tracking_number = tracking_number IN
    IF Strip(tracking_number) = <<>>
    THEN [errors |-> << <<"tracking_number", "tracking_number_required">> >>,
          migrated_data |-> migrated_data]
    ELSE IF exists
    THEN [errors |-> << <<"tracking_number", "tracking_number_exists">> >>,
          migrated_data |-> migrated_data]
    ELSE [errors |-> <<>>,
          migrated_data |->
              Append(migrated_data,
                     TrackingItem(Upper(Strip(tracking_number)),
                                  IF name # <<>> THEN name ELSE Upper(Strip(tracking_number)),
                                  user_input.stop_tracking_delivered, code))]

\* async_step_add_tracking with user_input, lines 356-383: the errors and
\* the list afterwards
add_tracking(migrated_data, user_input) ==
    LET tracking_number == Upper(Strip(user_input.tracking_number))
        name == Strip(user_input.name)
        code == IF user_input.courier = NoneValue THEN "auto" ELSE user_input.courier.text
        exists == \E i \in DOMAIN migrated_data :
                      migrated_data[i].tracking_number = tracking_number IN
    IF tracking_number = <<>>
    THEN [errors |-> << <<"tracking_number", "tracking_number_required">> >>,
          migrated_data |-> migrated_data]
    ELSE IF exists
    THEN [errors |-> << <<"tracking_number", "tracking_number_exists">> >>,
          migrated_data |-> migrated_data]
    ELSE [errors |-> <<>>,
          migrated_data |->
              Append(migrated_data,
                     TrackingItem(tracking_number,
                                  IF name # <<>> THEN name ELSE tracking_number,
                                  user_input.stop_tracking_delivered, code))]

\* the add_tracking form is submitted, lines 356-414: with errors the form
\* is shown again; otherwise the entry is created with the list and the
\* flow ends
SubmitAddTracking ==
    /\ flow # NoneValue /\ flow.step = "add_tracking"
    /\ \E user_input \in AddTrackingInputs :
           LET r == add_tracking(flow.migrated_data, user_input)
               seen == [flow EXCEPT !.submitted = [user_input |-> user_input,
                                                   before |-> flow.migrated_data]] IN
           flow' = IF r.errors # <<>>
                   THEN [seen EXCEPT !.answer = Form("add_tracking", r.errors)]
                   ELSE [seen EXCEPT !.migrated_data = r.migrated_data,
                                     !.saved = r.migrated_data,
                                     !.step = "closed",
                                     !.answer = [type |-> "create_entry",
                                                 data |-> r.migrated_data]]
    /\ UNCHANGED <<requestVars, fn, reqs, coord>>

FlowNext == OpenFlow \/ PressAdd \/ SubmitAddTracking

FlowSpec == FlowInit /\ [][FlowNext]_vars

\* the add_tracking form has been submitted and nothing done since
AddSubmitted == flow # NoneValue /\ flow.submitted # NoneValue

(***************************************************************************)
(* C24: rejection in add_tracking.  Submitting add_tracking with an empty  *)
(* tracking number, or with a number that after trimming and upper-casing  *)
(* is already in the configured list, returns the form with an error on    *)
(* 'tracking_number', creates no entry and leaves the list unchanged;      *)
(* otherwise exactly one item with the submitted courier (default 'auto')  *)
(* is appended.                                                            *)
(***************************************************************************)
C24_AddTrackingRejection ==
    AddSubmitted =>
        LET u == flow.submitted.user_input
            before == flow.submitted.before
            typed == Upper(Strip(u.tracking_number))
            rejected == \/ typed = <<>>
                        \/ \E i \in DOMAIN before : before[i].tracking_number = typed IN
        /\ rejected =>
              /\ flow.answer.type = "form"
              /\ {flow.answer.errors[i][1] : i \in DOMAIN flow.answer.errors}
                    = {"tracking_number"}
              /\ flow.migrated_data = before /\ flow.saved = before
        /\ ~rejected =>
              /\ flow.answer.type = "create_entry"
              /\ Len(flow.migrated_data) = Len(before) + 1
              /\ SubSeq(flow.migrated_data, 1, Len(before)) = before
              /\ flow.migrated_data[Len(before) + 1].tracking_number = typed
              /\ flow.migrated_data[Len(before) + 1].courier
                    = (IF u.courier = NoneValue THEN "auto" ELSE u.courier.text)
              /\ flow.answer.data = flow.migrated_data

\* " a1 " is submitted while A1 is configured: the form comes back with the
\* error and the list is as it was
C24_Witness ==
    /\ AddSubmitted
    /\ flow.submitted.user_input.tracking_number = <<" ", "a", "1", " ">>
    /\ \E i \in DOMAIN flow.submitted.before :
           flow.submitted.before[i].tracking_number = <<"A", "1">>
    /\ Len(flow.submitted.before) = 2
    /\ flow.answer.type = "form"
    /\ flow.answer.errors = << <<"tracking_number", "tracking_number_exists">> >>
    /\ flow.migrated_data = flow.submitted.before

(***************************************************************************)
(* The coordinator (__init__.py:146-272).  coord is                        *)
(*   tracking_numbers, stop   the configured numbers and, for each, its    *)
(*                   stop_tracking_delivered                               *)
(*   has_data, data  self.data: None before the first refresh (has_data    *)
(*                   false), afterwards a dict; data[n] is the entry of n, *)
(*                   NoneValue when the dict has no key n                  *)
(*   running         a refresh is at its gather                            *)
(*   active          active_numbers of the running or last refresh         *)
(*   results         what each _track_one of that refresh has returned,    *)
(*                   [kind |-> "pending"] while it runs                    *)
(*   before, ended   history: self.data when that refresh began, and how   *)
(*                   it ended ("merged", "timeout", "skipped")             *)
(* A request is taken by its outcome; its steps are the tracking request   *)
(* above.  The host stores what _async_update_data returns in self.data.   *)
(***************************************************************************)
ConfiguredNumbers == <<"A1", "B2">>

Pending == [kind |-> "pending"]

\* what _track_one(n) can return: a positive result (delivered or on its
\* way), the Not Found result, an error result, None
TrackOneOutcomes(n) ==
    { TrackingResult(TRUE, n, "elta", "Delivered", "delivered",
                     <<TrackingEvent("x", "Delivered")>>,
                     TrackingEvent("x", "Delivered"), NoneValue),
      TrackingResult(TRUE, n, "elta", "In Transit", "in_transit",
                     <<TrackingEvent("y", "In Transit")>>,
                     TrackingEvent("y", "In Transit"), NoneValue),
      TrackingResult(TRUE, n, "elta", "Not Found", "unknown", <<>>, NoneValue, NoneValue),
      ErrorResult("elta", n, Str("HTTP error: 500")),
      NoneValue }

\* what gather can put in results for a request: its return value, or with
\* return_exceptions=True an exception it raised
GatherOutcomes(n) == TrackOneOutcomes(n) \cup {Raised("boom")}

CoordInit ==
    /\ NoRequest /\ fn = NoneValue /\ reqs = <<>> /\ flow = NoneValue
    /\ \E stop \in [{ConfiguredNumbers[i] : i \in DOMAIN ConfiguredNumbers} -> BOOLEAN] :
           coord = [tracking_numbers |-> ConfiguredNumbers, stop |-> stop,
                    has_data |-> FALSE,
                    data |-> [n \in DOMAIN stop |-> NoneValue],
                    running |-> FALSE, active |-> <<>>, results |-> <<>>,
                    before |-> [n \in DOMAIN stop |-> NoneValue],
                    ended |-> "none"]

\* mutant: every configured number is polled
ActiveNumbers_All(c) == c.tracking_numbers

\* active_numbers, lines 175-189: the numbers not skipped as delivered with
\* stop_tracking_delivered set
ActiveNumbers(c) ==
    SelectSeq(c.tracking_numbers,
              LAMBDA n : ~(/\ c.stop[n]
                           /\ c.data[n] # NoneValue
                           /\ c.data[n].status_category = "delivered"))

\* _async_update_data up to the gather, lines 166-227; with nothing to poll
\* it returns self.data or {}
StartUpdate ==
    /\ coord # NoneValue /\ ~coord.running
    /\ LET active == ActiveNumbers(coord)
           began == [coord EXCEPT !.before = coord.data, !.active = active,
                                  !.results = [i \in DOMAIN active |-> Pending]] IN
       coord' = IF active = <<>>
                THEN [began EXCEPT !.has_data = TRUE, !.ended = "skipped"]
                ELSE [began EXCEPT !.running = TRUE, !.ended = "running"]
    /\ UNCHANGED <<requestVars, fn, reqs, flow>>

\* one _track_one of the gather ends
RequestEnds ==
    /\ coord # NoneValue /\ coord.running
    /\ \E i \in DOMAIN coord.active :
           /\ coord.results[i] = Pending
           /\ \E r \in GatherOutcomes(coord.active[i]) :
                  coord' = [coord EXCEPT !.results[i] = r]
    /\ UNCHANGED <<requestVars, fn, reqs, flow>>

\* mutant: the newest result is stored whatever it is
MergeResult_Overwrite(old, n, result) ==
    IF IsException(result)
    THEN TrackingResult(FALSE, n, "unknown", "No data available", "unknown",
                        <<>>, NoneValue, Str(result.msg))
    ELSE IF result = NoneValue THEN old
    ELSE result

\* the body of the merge loop, lines 240-269: the entry of n after result
\* has been merged into new_data, whose entry of n was old
MergeResult(old, n, result) ==
    IF IsException(result)
    THEN IF old = NoneValue
         THEN TrackingResult(FALSE, n, "unknown", "No data available", "unknown",
                             <<>>, NoneValue, Str(result.msg))
         ELSE old
    ELSE IF result = NoneValue THEN old
    ELSE IF ~result.success \/ result.status \in {"Error", "Not Found"}
    THEN IF old # NoneValue THEN old ELSE result
    ELSE result

\* the gather has returned within the timeout: the merge, lines 237-272
Gathered ==
    /\ coord # NoneValue /\ coord.running
    /\ \A i \in DOMAIN coord.results : coord.results[i] # Pending
    /\ LET index(n) == CHOOSE i \in DOMAIN coord.active : coord.active[i] = n
           polled == {coord.active[i] : i \in DOMAIN coord.active} IN
       coord' = [coord EXCEPT
                    !.has_data = TRUE,
                    !.data = [n \in DOMAIN coord.data |->
                                 IF n \in polled
                                 THEN MergeResult(coord.data[n], n, coord.results[index(n)])
                                 ELSE coord.data[n]],
                    !.running = FALSE, !.ended = "merged"]
    /\ UNCHANGED <<requestVars, fn, reqs, flow>>

\* mutant: after a timeout the results that have arrived are merged
TimedOutData_MergeArrived(c) ==
    [n \in DOMAIN c.data |->
        IF \E i \in DOMAIN c.active : c.active[i] = n /\ IsResult(c.results[i])
        THEN c.results[CHOOSE i \in DOMAIN c.active : c.active[i] = n]
        ELSE c.data[n]]

\* return self.data or {} of the timeout handler, lines 232-235
TimedOutData(c) == c.data

\* the 60 s timeout expires while a request of the gather still runs
TimedOut ==
    /\ coord # NoneValue /\ coord.running
    /\ \E i \in DOMAIN coord.results : coord.results[i] = Pending
    /\ coord' = [coord EXCEPT !.has_data = TRUE, !.data = TimedOutData(coord),
                              !.running = FALSE, !.ended = "timeout"]
    /\ UNCHANGED <<requestVars, fn, reqs, flow>>

CoordNext == StartUpdate \/ RequestEnds \/ Gathered \/ TimedOut

CoordSpec == CoordInit /\ [][CoordNext]_vars

\* a positive entry or result: success and neither 'Error' nor 'Not Found'
Positive(e) == IsResult(e) /\ e.success /\ e.status \notin {"Error", "Not Found"}

\* the result of n in the running or last refresh
ResultOf(n) == coord.results[CHOOSE i \in DOMAIN coord.active : coord.active[i] = n]

Polled(n) == \E i \in DOMAIN coord.active : coord.active[i] = n

(***************************************************************************)
(* C26: the coordinator never downgrades data.  Across any sequence of     *)
(* refreshes a failure outcome for a number (an exception, None, success   *)
(* False, or status 'Error' / 'Not Found') is written to the data only     *)
(* when the number has no entry yet; so an entry that is a positive result *)
(* is only ever replaced by another positive result.                       *)
(***************************************************************************)
C26_NeverDowngrades ==
    [][\A n \in DOMAIN coord.data :
          /\ (coord'.data[n] # coord.data[n] /\ ~Positive(coord'.data[n]))
                 => coord.data[n] = NoneValue
          /\ Positive(coord.data[n]) => Positive(coord'.data[n])]_vars

\* the entry of A1 was positive, its request then failed with an error
\* result, and after the merge the entry is the one it was
C26_Witness ==
    /\ coord # NoneValue /\ coord.ended = "merged"
    /\ Positive(coord.before["A1"])
    /\ Polled("A1") /\ IsResult(ResultOf("A1")) /\ ~ResultOf("A1").success
    /\ coord.data["A1"] = coord.before["A1"]

\* n is configured with stop_tracking_delivered and its entry is delivered
Stopped(n) ==
    /\ coord.stop[n] /\ coord.data[n] # NoneValue
    /\ coord.data[n].status_category = "delivered"

(***************************************************************************)
(* C27: stop-tracking-delivered is absorbing.  Once a number configured    *)
(* with stop_tracking_delivered has an entry of category 'delivered', no   *)
(* later refresh issues a request for it and its entry stays present and   *)
(* unchanged in the result of every later refresh, while the other numbers *)
(* are still polled.                                                       *)
(***************************************************************************)
C27_StopTrackingAbsorbing ==
    [][\A n \in DOMAIN coord.data :
          Stopped(n) =>
              /\ coord'.data[n] = coord.data[n]
              /\ coord'.running => \A i \in DOMAIN coord'.active : coord'.active[i] # n
              /\ \A m \in DOMAIN coord.data :
                     (~coord.running /\ coord'.running /\ ~Stopped(m))
                         => \E i \in DOMAIN coord'.active : coord'.active[i] = m]_vars

\* a refresh runs that polls B2 and not A1, which is delivered and stopped;
\* B2 has an entry already
C27_Witness ==
    /\ coord # NoneValue /\ coord.running
    /\ Stopped("A1")
    /\ coord.active = <<"B2">>
    /\ coord.data["B2"] # NoneValue

(***************************************************************************)
(* C28: the aggregate timeout leaves the data unchanged.  If the timeout   *)
(* of the batch expires while the fan-out runs, the refresh returns the    *)
(* data held before exactly as it was (an empty map if there was none) and *)
(* merges no result of the batch, also none of the requests that had       *)
(* completed.                                                              *)
(***************************************************************************)
C28_TimeoutKeepsData ==
    (coord # NoneValue /\ coord.ended = "timeout") =>
        /\ coord.has_data
        /\ coord.data = coord.before

\* the timeout struck after A1's request had returned a delivered result
\* while A1's entry was in transit: the entry is still the one in transit
C28_Witness ==
    /\ coord # NoneValue /\ coord.ended = "timeout"
    /\ Polled("A1") /\ Positive(ResultOf("A1"))
    /\ ResultOf("A1").status = "Delivered"
    /\ Positive(coord.data["A1"]) /\ coord.data["A1"].status = "In Transit"

(***************************************************************************)
(* C29: the sweep and the retry agree on what is confident.  Every result  *)
(* track_with_auto_detect returns early, from an adapter that is not the   *)
(* last of the registry, also meets the acceptance test of the bounded     *)
(* retry: it has an event or a status other than the placeholders          *)
(* 'Unknown' and ''; a success result with no events and the status        *)
(* 'Unknown' never stops the sweep.                                        *)
(***************************************************************************)
C29_SweepRetryAgree ==
    (/\ spc = "returned" /\ outcomes # <<>>
     /\ Len(outcomes) < Len(COURIER_REGISTRY)
     /\ sret = outcomes[Len(outcomes)])
    => /\ Found(sret)
       /\ ~(sret.success /\ sret.events = <<>> /\ sret.status = "Unknown")

(***************************************************************************)
(* C30: a missing status text is not promoted.  translate_status of the    *)
(* empty string is the empty string for every table, so a result whose     *)
(* newest event has no source status text (an ELTA event without a         *)
(* 'status' field) never has a translated phrase as status and never has   *)
(* the category 'delivered'.  Stated for the results whose status is taken *)
(* from the newest event: not Box Now's, which reads the parcel state, and *)
(* not those of a body that carries a delivered flag of its own.           *)
(***************************************************************************)
C30_MissingStatusNotPromoted ==
    (/\ AdapterTracked /\ fn.arg.code # "box_now"
     /\ fn.value.success /\ fn.value.events # <<>>
     /\ fn.value.events[1].status = ""
     /\ ~fn.arg.response.data.delivered)
    => LET t == STATUS_TRANSLATIONS(fn.arg.code) IN
       /\ translate_status("", t) = ""
       /\ fn.value.events[1].status_translated = ""
       /\ fn.value.status \notin TableValues(t)
       /\ fn.value.status_category # "delivered"

====
